---- MODULE Spec2Model ----
(***************************************************************************)
(* Chat Bridge (Go): the provider registry (pkg/providers/provider.go),    *)
(* the OpenAI provider and its streaming goroutine                         *)
(* (pkg/providers/openai.go), the configuration (pkg/config/config.go)     *)
(* and the conversation loop of `chat-bridge start` (cmd/start.go).        *)
(*                                                                         *)
(* Text is a sequence of one-character strings, so that concatenation,     *)
(* order and duplication of streamed chunks are visible.                   *)
(***************************************************************************)
EXTENDS Integers, Sequences, FiniteSets, TLC

VARIABLES
    \* pkg/providers/provider.go: the two process-wide maps
    providerRegistry,   \* key -> ProviderSpec
    providerFactories,  \* key -> ProviderFactory
    \* history of the registry's API calls (ghost)
    regLog,             \* the specs given to RegisterProvider, in call order
    facLog,             \* the <<key, factory>> given to RegisterProviderFactory
    lastCall,           \* the last registry call with its arguments and result
    \* cmd/start.go: flags and environment
    env, providerA, providerB, modelA, modelB, tempA, tempB, maxRounds,
    \* cmd/start.go: runStart's locals
    pc, cfg, agentA, agentB, ctxDone, messages, currentText, currentAgent,
    round, fullResponse, retErr,
    \* pkg/providers/openai.go: one StreamChat call
    req, textChan, errChan, tpc, resp, rd, chunk,
    \* ghosts of the run
    healthCalls, healthRes, streamCalls, emitted, errPlaced, nilRecv,
    \* the caller's cancellation and the clock of the select loop (ghosts)
    cancelAt,           \* where the run stood when its context was cancelled
    timer,              \* seconds run by the select's current time.After
    sinceEvent,         \* seconds since the select loop last received
    elapsed,            \* seconds since StreamChat was called
    \* the last direct call of a function of the packages (ghost)
    fnCall

regVars == <<providerRegistry, providerFactories, regLog, facLog, lastCall>>
flagVars == <<env, providerA, providerB, modelA, modelB, tempA, tempB, maxRounds>>
orchVars == <<pc, cfg, agentA, agentB, ctxDone, messages, currentText,
              currentAgent, round, fullResponse, retErr>>
taskVars == <<req, textChan, errChan, tpc, resp, rd, chunk>>
ghostVars == <<healthCalls, healthRes, streamCalls, emitted, errPlaced,
               nilRecv>>
auxVars == <<cancelAt, timer, sinceEvent, elapsed, fnCall>>
runVars == <<flagVars, orchVars, taskVars, ghostVars, auxVars>>
vars == <<regVars, runVars>>

----------------------------------------------------------------------------
(* Bounds of the model *)

MaxRounds == 2      \* largest --max-rounds explored
MaxLines == 2       \* most newline-terminated lines in a response body
MaxCalls == 3       \* most RegisterProvider / RegisterProviderFactory calls
MaxSseLines == 3     \* most lines in a body of the SSE catalogue
MaxMsgs == 3         \* longest message list given to convertMessages
MaxElapsed == 35    \* longest StreamChat call followed by the clock, in seconds

----------------------------------------------------------------------------
(* Errors: every error value is a record of the same shape.               *)

MkErr(kind, status, body, wrap) ==
    [kind |-> kind, status |-> status, body |-> body, wrap |-> wrap]

NilErr == MkErr("nil", 0, "", "")

ErrInvalidCredentials == MkErr("invalid credentials", 0, "", "")

ErrContextCancelled == MkErr("context cancelled", 0, "", "")

\* fmt.Errorf("API error (status %d): %s", resp.StatusCode, string(body))
APIError(status, body) == MkErr("API error", status, body, "")

\* an error returned by the HTTP client or by the body reader
NetErr == MkErr("network", 0, "", "")

\* context.Canceled, the error of a network call whose context is cancelled;
\* client.Do returns it inside a *url.Error ("Post ...: context canceled")
Canceled == MkErr("context canceled", 0, "", "")

\* fmt.Errorf("<prefix>: %w", err)
Wrap(prefix, err) == [err EXCEPT !.wrap = prefix]

\* fmt.Errorf("provider '%s' not yet implemented", key)
ErrNotImplemented(key) == MkErr("not yet implemented", 0, key, "")

ErrNoAPIKeys == MkErr("no API keys configured", 0, "", "")

ErrStreamTimeout == MkErr("stream timeout", 0, "", "")

\* ghost: the result of a call that was not made
NotCalled == MkErr("not called", 0, "", "")

----------------------------------------------------------------------------
(* pkg/providers/openai.go: the provider instance *)

Nil == [name |-> "<nil>", apiKey |-> "", baseURL |-> "", model |-> ""]

\* faulty variant: the configured model is ignored
NewOpenAIProviderIgnoreModel(config) ==
    [name    |-> "openai",
     apiKey  |-> config.APIKey,
     baseURL |-> IF config.BaseURL = "" THEN "https://api.openai.com/v1"
                 ELSE config.BaseURL,
     model   |-> "gpt-4o-mini"]

NewOpenAIProvider(config) ==
    [name    |-> "openai",
     apiKey  |-> config.APIKey,
     baseURL |-> IF config.BaseURL = "" THEN "https://api.openai.com/v1"
                 ELSE config.BaseURL,
     model   |-> IF config.Model = "" THEN "gpt-4o-mini" ELSE config.Model]

Name(p) == p.name

DefaultModel(p) == p.model

\* A factory the caller of RegisterProviderFactory supplies: it builds an
\* instance named "stub" that takes the configuration verbatim.
StubFactory(config) ==
    [name |-> "stub", apiKey |-> config.APIKey, baseURL |-> config.BaseURL,
     model |-> config.Model]

\* The ProviderFactory values: the closure openai.go registers in init(),
\* and a caller-supplied one.
Factories == {"NewOpenAIProvider", "StubFactory"}

ApplyFactory(factory, config) ==
    IF factory = "NewOpenAIProvider" THEN NewOpenAIProvider(config)
    ELSE StubFactory(config)

----------------------------------------------------------------------------
(* pkg/providers/provider.go: the registry *)

Keys == {"openai", "anthropic", "unknown"}

OpenAISpec ==
    [Key |-> "openai", Name |-> "OpenAI",
     Description |-> "GPT models from OpenAI",
     DefaultModel |-> "gpt-4o-mini", NeedsAPIKey |-> TRUE,
     Models |-> <<"gpt-4o", "gpt-4o-mini", "gpt-4-turbo", "gpt-4",
                  "gpt-3.5-turbo">>]

\* The ProviderSpec values given to RegisterProvider.
Specs ==
    {OpenAISpec,
     [OpenAISpec EXCEPT !.DefaultModel = "gpt-4o", !.Name = "OpenAI v2"],
     [Key |-> "anthropic", Name |-> "Anthropic",
      Description |-> "Claude models from Anthropic",
      DefaultModel |-> "claude-3-5-sonnet-20241022", NeedsAPIKey |-> TRUE,
      Models |-> <<"claude-3-5-sonnet-20241022">>]}

ZeroSpec ==
    [Key |-> "", Name |-> "", Description |-> "", DefaultModel |-> "",
     NeedsAPIKey |-> FALSE, Models |-> <<>>]

EmptyMap == [x \in {} |-> 0]

\* m[k] = v on a Go map
MapPut(m, k, v) == [x \in DOMAIN m \cup {k} |-> IF x = k THEN v ELSE m[x]]

\* faulty variant: a registered key is not overwritten
RegisterProviderFirstWins(reg, spec) ==
    IF spec.Key \in DOMAIN reg THEN reg ELSE MapPut(reg, spec.Key, spec)

RegisterProvider(reg, spec) == MapPut(reg, spec.Key, spec)

GetProviderSpec(reg, key) ==
    IF key \in DOMAIN reg THEN [spec |-> reg[key], ok |-> TRUE]
    ELSE [spec |-> ZeroSpec, ok |-> FALSE]

ListProviders(reg) == {reg[k] : k \in DOMAIN reg}

\* faulty variant: a registered key is not overwritten
RegisterProviderFactoryFirstWins(fac, key, factory) ==
    IF key \in DOMAIN fac THEN fac ELSE MapPut(fac, key, factory)

RegisterProviderFactory(fac, key, factory) == MapPut(fac, key, factory)

GetProviderFactory(fac, key) ==
    IF key \in DOMAIN fac THEN [factory |-> fac[key], ok |-> TRUE]
    ELSE [factory |-> "", ok |-> FALSE]

\* faulty variant: a key that has a spec counts as implemented
NewProviderBySpec(reg, fac, key, config) ==
    IF key \in DOMAIN reg \/ key \in DOMAIN fac
    THEN [provider |-> NewOpenAIProvider(config), err |-> NilErr]
    ELSE [provider |-> Nil, err |-> ErrNotImplemented(key)]

NewProvider(reg, fac, key, config) ==
    LET f == GetProviderFactory(fac, key) IN
    IF ~f.ok THEN [provider |-> Nil, err |-> ErrNotImplemented(key)]
    ELSE [provider |-> ApplyFactory(f.factory, config), err |-> NilErr]

\* The maps after package initialisation: openai.go's init()
InitRegistry == RegisterProvider(EmptyMap, OpenAISpec)

InitFactories == RegisterProviderFactory(EmptyMap, "openai", "NewOpenAIProvider")

\* The ProviderConfig values given to NewProvider
ProviderConfigs ==
    {[APIKey |-> "sk-a", BaseURL |-> "", Model |-> m, Temperature |-> 7] :
       m \in {"", "gpt-test"}}

ZeroProviderConfig == [APIKey |-> "", BaseURL |-> "", Model |-> "", Temperature |-> 0]

\* What the last call of the registry's API was given and what it returned
Call(op, key, spec, factory, config, provider, err, ok, list) ==
    [op |-> op, key |-> key, spec |-> spec, factory |-> factory,
     config |-> config, provider |-> provider, err |-> err, ok |-> ok,
     list |-> list]

NoCall == Call("none", "", ZeroSpec, "", ZeroProviderConfig, Nil, NilErr, FALSE, {})

DoRegisterProvider ==
    /\ Len(regLog) + Len(facLog) < MaxCalls + 2
    /\ \E spec \in Specs :
         /\ providerRegistry' = RegisterProvider(providerRegistry, spec)
         /\ regLog' = Append(regLog, spec)
         /\ lastCall' = Call("RegisterProvider", spec.Key, spec, "",
                             ZeroProviderConfig, Nil, NilErr, FALSE, {})
    /\ UNCHANGED <<providerFactories, facLog, runVars>>

DoRegisterProviderFactory ==
    /\ Len(regLog) + Len(facLog) < MaxCalls + 2
    /\ \E key \in Keys, factory \in Factories :
         /\ providerFactories' = RegisterProviderFactory(providerFactories, key, factory)
         /\ facLog' = Append(facLog, <<key, factory>>)
         /\ lastCall' = Call("RegisterProviderFactory", key, ZeroSpec, factory,
                             ZeroProviderConfig, Nil, NilErr, FALSE, {})
    /\ UNCHANGED <<providerRegistry, regLog, runVars>>

DoGetProviderSpec ==
    /\ \E key \in Keys :
         LET r == GetProviderSpec(providerRegistry, key) IN
         lastCall' = Call("GetProviderSpec", key, r.spec, "", ZeroProviderConfig,
                          Nil, NilErr, r.ok, {})
    /\ UNCHANGED <<providerRegistry, providerFactories, regLog, facLog, runVars>>

DoListProviders ==
    /\ lastCall' = Call("ListProviders", "", ZeroSpec, "", ZeroProviderConfig,
                        Nil, NilErr, FALSE, ListProviders(providerRegistry))
    /\ UNCHANGED <<providerRegistry, providerFactories, regLog, facLog, runVars>>

DoGetProviderFactory ==
    /\ \E key \in Keys :
         LET r == GetProviderFactory(providerFactories, key) IN
         lastCall' = Call("GetProviderFactory", key, ZeroSpec, r.factory,
                          ZeroProviderConfig, Nil, NilErr, r.ok, {})
    /\ UNCHANGED <<providerRegistry, providerFactories, regLog, facLog, runVars>>

DoNewProvider ==
    /\ \E key \in Keys, config \in ProviderConfigs :
         LET r == NewProvider(providerRegistry, providerFactories, key, config) IN
         lastCall' = Call("NewProvider", key, ZeroSpec, "", config, r.provider,
                          r.err, FALSE, {})
    /\ UNCHANGED <<providerRegistry, providerFactories, regLog, facLog, runVars>>

----------------------------------------------------------------------------
(* pkg/config/config.go *)

Getenv(e, k) == IF k \in DOMAIN e THEN e[k] ELSE ""

getEnvOrDefault(e, key, defaultValue) ==
    IF Getenv(e, key) # "" THEN Getenv(e, key) ELSE defaultValue

Load(e) ==
    [OpenAIKey         |-> Getenv(e, "OPENAI_API_KEY"),
     AnthropicKey      |-> Getenv(e, "ANTHROPIC_API_KEY"),
     GeminiKey         |-> Getenv(e, "GEMINI_API_KEY"),
     DeepSeekKey       |-> Getenv(e, "DEEPSEEK_API_KEY"),
     OpenRouterKey     |-> Getenv(e, "OPENROUTER_API_KEY"),
     OpenAIBaseURL     |-> getEnvOrDefault(e, "OPENAI_BASE_URL", "https://api.openai.com/v1"),
     OllamaHost        |-> getEnvOrDefault(e, "OLLAMA_HOST", "http://localhost:11434"),
     LMStudioBaseURL   |-> getEnvOrDefault(e, "LMSTUDIO_BASE_URL", "http://localhost:1234/v1"),
     DeepSeekBaseURL   |-> getEnvOrDefault(e, "DEEPSEEK_BASE_URL", "https://api.deepseek.com/v1"),
     OpenRouterBaseURL |-> getEnvOrDefault(e, "OPENROUTER_BASE_URL", "https://openrouter.ai/api/v1"),
     OpenAIModel       |-> getEnvOrDefault(e, "OPENAI_MODEL", "gpt-4o-mini"),
     AnthropicModel    |-> getEnvOrDefault(e, "ANTHROPIC_MODEL", "claude-3-5-sonnet-20241022"),
     GeminiModel       |-> getEnvOrDefault(e, "GEMINI_MODEL", "gemini-2.0-flash-exp"),
     OllamaModel       |-> getEnvOrDefault(e, "OLLAMA_MODEL", "llama3.1:8b-instruct"),
     LMStudioModel     |-> getEnvOrDefault(e, "LMSTUDIO_MODEL", "local-model"),
     DeepSeekModel     |-> getEnvOrDefault(e, "DEEPSEEK_MODEL", "deepseek-chat"),
     OpenRouterModel   |-> getEnvOrDefault(e, "OPENROUTER_MODEL", "openai/gpt-4o-mini")]

\* faulty variant: only the keys of the two default providers are looked at
ValidateDefaultsOnly(c) ==
    IF c.OpenAIKey = "" /\ c.AnthropicKey = ""
    THEN ErrNoAPIKeys
    ELSE NilErr

Validate(c) ==
    IF c.OpenAIKey = "" /\ c.AnthropicKey = "" /\ c.GeminiKey = ""
       /\ c.DeepSeekKey = "" /\ c.OpenRouterKey = ""
    THEN ErrNoAPIKeys
    ELSE NilErr

GetAPIKey(c, provider) ==
    CASE provider = "openai"     -> c.OpenAIKey
      [] provider = "anthropic"  -> c.AnthropicKey
      [] provider = "gemini"     -> c.GeminiKey
      [] provider = "deepseek"   -> c.DeepSeekKey
      [] provider = "openrouter" -> c.OpenRouterKey
      [] OTHER                   -> ""

GetDefaultModel(c, provider) ==
    CASE provider = "openai"     -> c.OpenAIModel
      [] provider = "anthropic"  -> c.AnthropicModel
      [] provider = "gemini"     -> c.GeminiModel
      [] provider = "ollama"     -> c.OllamaModel
      [] provider = "lmstudio"   -> c.LMStudioModel
      [] provider = "deepseek"   -> c.DeepSeekModel
      [] provider = "openrouter" -> c.OpenRouterModel
      [] OTHER                   -> ""

GetProviderBaseURL(c, provider) ==
    CASE provider = "openai"     -> c.OpenAIBaseURL
      [] provider = "ollama"     -> c.OllamaHost
      [] provider = "lmstudio"   -> c.LMStudioBaseURL
      [] provider = "deepseek"   -> c.DeepSeekBaseURL
      [] provider = "openrouter" -> c.OpenRouterBaseURL
      [] OTHER                   -> ""

\* The zero Config, before Load
ZeroConfig == Load(EmptyMap)

----------------------------------------------------------------------------
(* pkg/providers/openai.go: Health, and the lines of a streamed response  *)

\* An HTTP response as the client sees it: a transport failure, or a status
\* with a body. A streamed body is its newline-terminated lines, then the way
\* the read after the last line ends: with io.EOF or another error, and with
\* the bytes that follow the last newline (tail).
HttpResp(neterr, status, body, lines, end) ==
    [neterr |-> neterr, status |-> status, body |-> body, lines |-> lines,
     end |-> end, tail |-> <<>>]

\* a streamed 200 body whose last line has no newline
HttpRespPartial(lines, tail, end) ==
    [HttpResp(FALSE, 200, "", lines, end) EXCEPT !.tail = tail]

NoResp == HttpResp(FALSE, 0, "", <<>>, "EOF")

\* faulty variant: every 2xx status is taken for success
HealthAny2xx(r) ==
    IF r.neterr THEN Wrap("connection failed", NetErr)
    ELSE IF r.status = 401 THEN ErrInvalidCredentials
    ELSE IF r.status < 200 \/ r.status > 299 THEN APIError(r.status, r.body)
    ELSE NilErr

Health(r) ==
    IF r.neterr THEN Wrap("connection failed", NetErr)
    ELSE IF r.status = 401 THEN ErrInvalidCredentials
    ELSE IF r.status # 200 THEN APIError(r.status, r.body)
    ELSE NilErr

\* The responses of GET <baseURL>/models
HealthResponses ==
    {HttpResp(TRUE, 0, "", <<>>, "EOF"),
     HttpResp(FALSE, 200, "{models}", <<>>, "EOF"),
     HttpResp(FALSE, 401, "unauthorized", <<>>, "EOF"),
     HttpResp(FALSE, 500, "oops", <<>>, "EOF")}

\* A line is a sequence of tokens: " " is white space, "data: " the SSE
\* prefix, every other token a piece of payload.
RECURSIVE TrimLeft(_)
TrimLeft(line) ==
    IF line # <<>> /\ Head(line) = " " THEN TrimLeft(Tail(line)) ELSE line

RECURSIVE TrimRight(_)
TrimRight(line) ==
    IF line # <<>> /\ line[Len(line)] = " "
    THEN TrimRight(SubSeq(line, 1, Len(line) - 1))
    ELSE line

TrimSpace(line) == TrimRight(TrimLeft(line))

HasPrefix(line, prefix) == line # <<>> /\ Head(line) = prefix

TrimPrefix(line, prefix) == IF HasPrefix(line, prefix) THEN Tail(line) ELSE line

\* json.Unmarshal into struct{Choices []struct{Delta struct{Content string}}}:
\* the payloads that are JSON, with the delta contents of their choices.
Unmarshal(payload) ==
    CASE payload = <<"{a}">>    -> [ok |-> TRUE, Choices |-> << <<"a">> >>]
      [] payload = <<"{b}">>    -> [ok |-> TRUE, Choices |-> << <<"b">> >>]
      [] payload = <<"{b,a}">>  -> [ok |-> TRUE, Choices |-> << <<"b">>, <<"a">> >>]
      [] payload = <<"{empty}">> -> [ok |-> TRUE, Choices |-> << <<>> >>]
      [] payload = <<"{}">>     -> [ok |-> TRUE, Choices |-> <<>>]
      [] OTHER                  -> [ok |-> FALSE, Choices |-> <<>>]

\* One pass of the read loop over a line that was read: the content sent on
\* textChan, or <<>> when the loop continues without sending.
\* faulty variant: a payload that is not JSON is sent on as text
ChunkOfLineNoSkipBad(raw) ==
    LET line == TrimSpace(raw) IN
    IF line = <<>> \/ line = <<"data: ", "[DONE]">> THEN <<>>
    ELSE IF ~HasPrefix(line, "data: ") THEN <<>>
    ELSE LET c == Unmarshal(TrimPrefix(line, "data: ")) IN
         IF ~c.ok THEN <<"?">>
         ELSE IF Len(c.Choices) > 0 /\ c.Choices[1] # <<>> THEN c.Choices[1]
         ELSE <<>>

ChunkOfLine(raw) ==
    LET line == TrimSpace(raw) IN
    IF line = <<>> \/ line = <<"data: ", "[DONE]">> THEN <<>>
    ELSE IF ~HasPrefix(line, "data: ") THEN <<>>
    ELSE LET c == Unmarshal(TrimPrefix(line, "data: ")) IN
         IF ~c.ok THEN <<>>
         ELSE IF Len(c.Choices) > 0 /\ c.Choices[1] # <<>> THEN c.Choices[1]
         ELSE <<>>

\* The lines the backend of a run streams
RunLines ==
    {<<"data: ", "{a}">>, <<"data: ", "{b}">>, <<"data: ", "{bad">>}

RECURSIVE SeqsUpTo(_, _)
SeqsUpTo(S, n) ==
    IF n = 0 THEN {<<>>}
    ELSE LET shorter == SeqsUpTo(S, n - 1) IN
         shorter \cup {Append(q, x) : q \in shorter, x \in S}

\* The responses of POST <baseURL>/chat/completions in a run
RunResponses ==
    {HttpResp(TRUE, 0, "", <<>>, "EOF"), HttpResp(FALSE, 500, "oops", <<>>, "EOF")}
    \cup {HttpResp(FALSE, 200, "", ls, e) :
            ls \in SeqsUpTo(RunLines, MaxLines), e \in {"EOF", "err"}}

\* Concatenation of a sequence of texts
RECURSIVE Concat(_)
Concat(ts) == IF ts = <<>> THEN <<>> ELSE Head(ts) \o Concat(Tail(ts))

Message(role, content) == [Role |-> role, Content |-> content]

\* faulty variant: a system record is put before the messages
convertMessagesWithSystem(ms) ==
    <<[role |-> "system", content |-> <<>>]>> \o
    [i \in 1..Len(ms) |-> [role |-> ms[i].Role, content |-> ms[i].Content]]

convertMessages(ms) ==
    [i \in 1..Len(ms) |-> [role |-> ms[i].Role, content |-> ms[i].Content]]

ChatRequest(model, ms, temperature, maxTokens) ==
    [Model |-> model, Messages |-> ms, Temperature |-> temperature,
     MaxTokens |-> maxTokens, SystemPrompt |-> ""]

NoRequest == ChatRequest("", <<>>, 0, 0)

----------------------------------------------------------------------------
(* cmd/start.go: runStart *)

\* --starter
starter == <<"h">>

\* The environments a run is started in
Envs ==
    {EmptyMap,
     [k \in {"OPENAI_API_KEY"} |-> "sk-a"],
     [k \in {"ANTHROPIC_API_KEY", "OPENAI_MODEL"} |->
        IF k = "OPENAI_MODEL" THEN "gpt-test" ELSE "sk-b"]}

Sides == {"A", "B"}

Agent(side) == IF side = "A" THEN agentA ELSE agentB

\* faulty variant: the speaker is not switched
OtherNoSwitch(side) == side

Other(side) == IF side = "A" THEN "B" ELSE "A"

buildProvider(c, provider, apiKey, model, temp) ==
    NewProvider(providerRegistry, providerFactories, provider,
                [APIKey |-> apiKey, BaseURL |-> GetProviderBaseURL(c, provider),
                 Model |-> model, Temperature |-> temp])

Return(err) ==
    /\ pc' = IF err = NilErr THEN "finished" ELSE "aborted"
    /\ retErr' = err

\* no function was called directly
NoFnCall == [op |-> "none", arg |-> <<>>, out |-> <<>>]

\* the context of the run has not been cancelled
NotCancelled == [round |-> 0, chunks |-> 0, tpc |-> "none"]

RunInit ==
    /\ env \in Envs
    /\ providerA \in {"openai", "anthropic"}
    /\ providerB \in {"openai", "anthropic"}
    /\ modelA \in {"", "gpt-4o"}
    /\ modelB = ""
    /\ tempA = 7
    /\ tempB \in {7, 9}
    /\ maxRounds \in -1..MaxRounds
    /\ pc = "validate"
    /\ cfg = ZeroConfig
    /\ agentA = Nil /\ agentB = Nil
    /\ ctxDone = FALSE
    /\ messages = <<>>
    /\ currentText = <<>>
    /\ currentAgent = "A"
    /\ round = 0
    /\ fullResponse = <<>>
    /\ retErr = NilErr
    /\ req = NoRequest
    /\ textChan = "nil"
    /\ errChan = [buf |-> <<>>, closed |-> FALSE]
    /\ tpc = "idle"
    /\ resp = NoResp
    /\ rd = 0
    /\ chunk = <<>>
    /\ healthCalls = [s \in Sides |-> 0]
    /\ healthRes = [s \in Sides |-> NotCalled]
    /\ streamCalls = [s \in Sides |-> 0]
    /\ emitted = <<>>
    /\ errPlaced = NilErr
    /\ nilRecv = FALSE
    /\ cancelAt = NotCancelled
    /\ timer = 0
    /\ sinceEvent = 0
    /\ elapsed = 0
    /\ fnCall = NoFnCall

\* config.Load, cfg.Validate, and the resolution of the default models
LoadAndValidate ==
    /\ pc = "validate"
    /\ cfg' = Load(env)
    /\ IF Validate(cfg') # NilErr
       THEN /\ Return(Validate(cfg'))
            /\ UNCHANGED <<modelA, modelB>>
       ELSE /\ pc' = "buildA"
            /\ modelA' = IF modelA = "" THEN GetDefaultModel(cfg', providerA) ELSE modelA
            /\ modelB' = IF modelB = "" THEN GetDefaultModel(cfg', providerB) ELSE modelB
            /\ UNCHANGED retErr
    /\ UNCHANGED <<env, providerA, providerB, tempA, tempB, maxRounds>>
    /\ UNCHANGED <<agentA, agentB, ctxDone, messages, currentText, currentAgent,
                   round, fullResponse>>
    /\ UNCHANGED <<taskVars, ghostVars, regVars>>

BuildA ==
    /\ pc = "buildA"
    /\ LET r == buildProvider(cfg, providerA, GetAPIKey(cfg, providerA), modelA, tempA) IN
       IF r.err # NilErr
       THEN Return(r.err) /\ UNCHANGED agentA
       ELSE pc' = "buildB" /\ agentA' = r.provider /\ UNCHANGED retErr
    /\ UNCHANGED <<cfg, agentB, ctxDone, messages, currentText, currentAgent,
                   round, fullResponse>>
    /\ UNCHANGED <<flagVars, taskVars, ghostVars, regVars>>

BuildBChecking(checked) ==
    /\ pc = "buildB"
    /\ LET r == buildProvider(cfg, providerB, GetAPIKey(cfg, providerB), modelB, tempB) IN
       IF checked /\ r.err # NilErr
       THEN Return(r.err) /\ UNCHANGED agentB
       ELSE pc' = "healthA" /\ agentB' = r.provider /\ UNCHANGED retErr
    /\ UNCHANGED <<cfg, agentA, ctxDone, messages, currentText, currentAgent,
                   round, fullResponse>>
    /\ UNCHANGED <<flagVars, taskVars, ghostVars, regVars>>

\* faulty variant: the error of buildProvider is dropped
BuildBUnchecked == BuildBChecking(FALSE)

BuildB == BuildBChecking(TRUE)

HealthAChecking(checked) ==
    /\ pc = "healthA"
    /\ \E r \in HealthResponses :
         /\ healthRes' = [healthRes EXCEPT !["A"] = Health(r)]
         /\ IF checked /\ Health(r) # NilErr
            THEN Return(Wrap("Agent A health check failed", Health(r)))
            ELSE pc' = "healthB" /\ UNCHANGED retErr
    /\ healthCalls' = [healthCalls EXCEPT !["A"] = @ + 1]
    /\ UNCHANGED <<cfg, agentA, agentB, ctxDone, messages, currentText,
                   currentAgent, round, fullResponse>>
    /\ UNCHANGED <<streamCalls, emitted, errPlaced, nilRecv>>
    /\ UNCHANGED <<flagVars, taskVars, regVars>>

\* faulty variant: the error of agent A's health check is dropped
HealthAUnchecked == HealthAChecking(FALSE)

HealthA == HealthAChecking(TRUE)

\* the health check of agent B and, when it passes, the loop's initialisation
HealthB ==
    /\ pc = "healthB"
    /\ \E r \in HealthResponses :
         /\ healthRes' = [healthRes EXCEPT !["B"] = Health(r)]
         /\ IF Health(r) # NilErr
            THEN /\ Return(Wrap("Agent B health check failed", Health(r)))
                 /\ UNCHANGED <<messages, currentText, currentAgent, round>>
            ELSE /\ pc' = "loop"
                 /\ messages' = <<>>
                 /\ currentText' = starter
                 /\ currentAgent' = "A"
                 /\ round' = 1
                 /\ UNCHANGED retErr
    /\ healthCalls' = [healthCalls EXCEPT !["B"] = @ + 1]
    /\ UNCHANGED <<cfg, agentA, agentB, ctxDone, fullResponse>>
    /\ UNCHANGED <<streamCalls, emitted, errPlaced, nilRecv>>
    /\ UNCHANGED <<flagVars, taskVars, regVars>>

\* faulty variant: the instances are compared by their contents, which are
\* the same when both sides use the same key, base URL and model
currentTempByValue(side) == IF Agent(side) = agentB THEN tempB ELSE tempA

\* currentTemp := tempA; if currentAgent == agentB { currentTemp = tempB }
\* (a comparison of the two instances' pointers)
currentTemp(side) == IF side = "B" THEN tempB ELSE tempA

\* for round <= maxRounds: append the user message, call StreamChat
RoundStartSending(history, sent, untested) ==
    /\ pc = "loop"
    /\ round <= maxRounds \/ round \in untested
    /\ messages' = history
    /\ req' = ChatRequest(DefaultModel(Agent(currentAgent)), sent,
                          currentTemp(currentAgent), 800)
    /\ textChan' = "open"
    /\ errChan' = [buf |-> <<>>, closed |-> FALSE]
    /\ tpc' = "request"
    /\ resp' = NoResp
    /\ rd' = 0
    /\ chunk' = <<>>
    /\ fullResponse' = <<>>
    /\ pc' = "select"
    /\ streamCalls' = [streamCalls EXCEPT ![currentAgent] = @ + 1]
    /\ emitted' = <<>>
    /\ errPlaced' = NilErr
    /\ nilRecv' = FALSE
    /\ UNCHANGED <<cfg, agentA, agentB, ctxDone, currentText, currentAgent,
                   round, retErr, healthCalls, healthRes>>
    /\ UNCHANGED <<flagVars, regVars>>

RoundStartWith(history) == RoundStartSending(history, history, {})

\* faulty variant: the round's user message is not appended
RoundStartNoUserEntry == RoundStartWith(messages)

\* faulty variant: the request is built from the history before the append
RoundStartStaleRequest ==
    RoundStartSending(Append(messages, Message("user", currentText)), messages,
                      {})

\* faulty variant: the first round is begun before the limit is tested
RoundStartDoWhile ==
    RoundStartSending(Append(messages, Message("user", currentText)),
                      Append(messages, Message("user", currentText)), {1})

RoundStart == RoundStartWith(Append(messages, Message("user", currentText)))

\* faulty variant: the loop is left one round early
LoopExitOneEarly ==
    /\ pc = "loop"
    /\ round >= maxRounds
    /\ Return(NilErr)
    /\ UNCHANGED <<cfg, agentA, agentB, ctxDone, messages, currentText,
                   currentAgent, round, fullResponse>>
    /\ UNCHANGED <<flagVars, taskVars, ghostVars, regVars>>

\* the loop condition fails: "Conversation completed"
LoopExit ==
    /\ pc = "loop"
    /\ round > maxRounds
    /\ Return(NilErr)
    /\ UNCHANGED <<cfg, agentA, agentB, ctxDone, messages, currentText,
                   currentAgent, round, fullResponse>>
    /\ UNCHANGED <<flagVars, taskVars, ghostVars, regVars>>

\* case text, ok := <-textChan with ok: the goroutine's send and the
\* orchestrator's receive meet (textChan is unbuffered)
RecvTextWith(written) ==
    /\ pc = "select"
    /\ textChan = "open"
    /\ tpc = "send"
    /\ fullResponse' = written
    /\ emitted' = Append(emitted, chunk)
    /\ tpc' = "read"
    /\ chunk' = <<>>
    /\ UNCHANGED <<pc, cfg, agentA, agentB, ctxDone, messages, currentText,
                   currentAgent, round, retErr>>
    /\ UNCHANGED <<req, textChan, errChan, resp, rd>>
    /\ UNCHANGED <<healthCalls, healthRes, streamCalls, errPlaced, nilRecv>>
    /\ UNCHANGED <<flagVars, regVars>>

\* faulty variant: the chunk is written before the text accumulated so far
RecvTextPrepend == RecvTextWith(chunk \o fullResponse)

RecvText == RecvTextWith(fullResponse \o chunk)

\* case text, ok := <-textChan with !ok: goto StreamDone, the assistant
\* message, the next text, the switch of agents
StreamDoneOn(chanStates, nextText) ==
    /\ pc = "select"
    /\ textChan \in chanStates
    /\ messages' = Append(messages, Message("assistant", fullResponse))
    /\ currentText' = nextText
    /\ currentAgent' = Other(currentAgent)
    /\ round' = round + 1
    /\ pc' = "loop"
    /\ UNCHANGED <<cfg, agentA, agentB, ctxDone, fullResponse, retErr>>
    /\ UNCHANGED <<flagVars, taskVars, ghostVars, regVars>>

\* faulty variants: the round ends while the text channel is open; the next
\* turn's text is not replaced by the reply
StreamDoneEarly == StreamDoneOn({"open", "closed"}, fullResponse)

StreamDoneKeepText == StreamDoneOn({"closed"}, currentText)

\* faulty variant: a round without text leaves no entry and keeps the speaker
StreamDoneSkipEmpty ==
    IF fullResponse # <<>>
    THEN StreamDoneOn({"closed"}, fullResponse)
    ELSE /\ pc = "select"
         /\ textChan = "closed"
         /\ round' = round + 1
         /\ pc' = "loop"
         /\ UNCHANGED <<cfg, agentA, agentB, ctxDone, messages, currentText,
                        currentAgent, fullResponse, retErr>>
         /\ UNCHANGED <<flagVars, taskVars, ghostVars, regVars>>

StreamDone == StreamDoneOn({"closed"}, fullResponse)

\* case err := <-errChan with a value in the buffer
RecvErr ==
    /\ pc = "select"
    /\ errChan.buf # <<>>
    /\ errChan' = [errChan EXCEPT !.buf = Tail(@)]
    /\ IF Head(errChan.buf) # NilErr
       THEN Return(Head(errChan.buf))
       ELSE UNCHANGED <<pc, retErr>>
    /\ UNCHANGED <<cfg, agentA, agentB, ctxDone, messages, currentText,
                   currentAgent, round, fullResponse>>
    /\ UNCHANGED <<req, textChan, tpc, resp, rd, chunk>>
    /\ UNCHANGED <<flagVars, ghostVars, regVars>>

\* faulty variant: the closed error channel is taken for the end of the
\* stream
RecvErrClosedEndsRound ==
    /\ pc = "select"
    /\ errChan.buf = <<>>
    /\ errChan.closed
    /\ nilRecv' = TRUE
    /\ messages' = Append(messages, Message("assistant", fullResponse))
    /\ currentText' = fullResponse
    /\ currentAgent' = Other(currentAgent)
    /\ round' = round + 1
    /\ pc' = "loop"
    /\ UNCHANGED <<cfg, agentA, agentB, ctxDone, fullResponse, retErr>>
    /\ UNCHANGED <<healthCalls, healthRes, streamCalls, emitted, errPlaced>>
    /\ UNCHANGED <<flagVars, taskVars, regVars>>

\* case err := <-errChan on the closed, empty channel: err is nil
RecvErrClosed ==
    /\ pc = "select"
    /\ errChan.buf = <<>>
    /\ errChan.closed
    /\ nilRecv' = TRUE
    /\ UNCHANGED <<healthCalls, healthRes, streamCalls, emitted, errPlaced>>
    /\ UNCHANGED <<flagVars, orchVars, taskVars, regVars>>

\* faulty variant: the timeout ends the round as a closed stream does
TimeoutEndsRound ==
    /\ pc = "select"
    /\ tpc \in {"request", "read"}
    /\ textChan = "open"
    /\ errChan.buf = <<>> /\ ~errChan.closed
    /\ messages' = Append(messages, Message("assistant", fullResponse))
    /\ currentText' = fullResponse
    /\ currentAgent' = Other(currentAgent)
    /\ round' = round + 1
    /\ pc' = "loop"
    /\ retErr' = ErrStreamTimeout
    /\ UNCHANGED <<cfg, agentA, agentB, ctxDone, fullResponse>>
    /\ UNCHANGED <<flagVars, taskVars, ghostVars, regVars>>

\* case <-time.After(30 * time.Second): no other case became ready while the
\* goroutine waited for the network
Timeout ==
    /\ pc = "select"
    /\ tpc \in {"request", "read"}
    /\ textChan = "open"
    /\ errChan.buf = <<>> /\ ~errChan.closed
    /\ Return(ErrStreamTimeout)
    /\ UNCHANGED <<cfg, agentA, agentB, ctxDone, messages, currentText,
                   currentAgent, round, fullResponse>>
    /\ UNCHANGED <<flagVars, taskVars, ghostVars, regVars>>

----------------------------------------------------------------------------
(* pkg/providers/openai.go: the goroutine of StreamChat *)

\* faulty variant: the goroutine goes on after the send of an error
SendErrNoReturn(err) ==
    /\ errChan' = [errChan EXCEPT !.buf = Append(@, err)]
    /\ errPlaced' = err
    /\ tpc' = tpc

\* errChan <- err; return (errChan has capacity 1 and holds nothing yet)
SendErrAndReturn(err) ==
    /\ errChan' = [errChan EXCEPT !.buf = Append(@, err)]
    /\ errPlaced' = err
    /\ tpc' = "closeErr"

\* p.client.Do(httpReq) and the status check
TaskRequestAccepting(responses, streamed) ==
    /\ tpc = "request"
    /\ ~ctxDone
    /\ \E r \in responses :
         /\ resp' = r
         /\ IF r.neterr THEN SendErrAndReturn(NetErr) /\ UNCHANGED rd
            ELSE IF r.status \notin streamed
            THEN SendErrAndReturn(APIError(r.status, r.body)) /\ UNCHANGED rd
            ELSE /\ tpc' = "read"
                 /\ rd' = 1
                 /\ UNCHANGED <<errChan, errPlaced>>
    /\ UNCHANGED <<req, textChan, chunk>>
    /\ UNCHANGED <<healthCalls, healthRes, streamCalls, emitted, nilRecv>>
    /\ UNCHANGED <<flagVars, orchVars, regVars>>

TaskRequestFrom(responses) == TaskRequestAccepting(responses, {200})

TaskRequest == TaskRequestFrom(RunResponses)

\* one pass of the read loop: reader.ReadString('\n') and the parsing of the
\* line, up to the select that sends the content
TaskReadWith(positions, eofErr, terminators, partialUsed) ==
    /\ tpc \in positions
    /\ ~ctxDone
    /\ IF rd > Len(resp.lines)
       THEN IF partialUsed /\ rd = Len(resp.lines) + 1
                  /\ ChunkOfLine(resp.tail) # <<>>
            THEN /\ rd' = rd + 1
                 /\ chunk' = ChunkOfLine(resp.tail)
                 /\ tpc' = "send"
                 /\ UNCHANGED <<errChan, errPlaced>>
            ELSE /\ IF resp.end = "EOF" /\ eofErr = NilErr
                    THEN tpc' = "closeErr" /\ UNCHANGED <<errChan, errPlaced>>
                    ELSE SendErrAndReturn(IF resp.end = "EOF" THEN eofErr
                                          ELSE NetErr)
                 /\ UNCHANGED <<rd, chunk>>
       ELSE /\ rd' = rd + 1
            /\ IF TrimSpace(resp.lines[rd]) \in terminators
               THEN chunk' = <<>> /\ tpc' = "closeErr"
               ELSE /\ chunk' = ChunkOfLine(resp.lines[rd])
                    /\ tpc' = IF chunk' # <<>> THEN "send" ELSE "read"
            /\ UNCHANGED <<errChan, errPlaced>>
    /\ UNCHANGED <<req, textChan, resp>>
    /\ UNCHANGED <<healthCalls, healthRes, streamCalls, emitted, nilRecv>>
    /\ UNCHANGED <<flagVars, orchVars, regVars>>

\* faulty variant: the content is offered without waiting for the receiver,
\* and the loop reads on over a content that was not taken
TaskReadNoWait == TaskReadWith({"read", "send"}, NilErr, {}, FALSE)

\* faulty variant: io.EOF is sent like any other read error
TaskReadEOFAsError == TaskReadWith({"read"}, MkErr("EOF", 0, "", ""), {}, FALSE)

\* faulty variant: `data: [DONE]` ends the stream
TaskReadDoneEnds ==
    TaskReadWith({"read"}, NilErr, {<<"data: ", "[DONE]">>}, FALSE)

\* faulty variant: the bytes read before io.EOF are parsed as a line
TaskReadPartialLine == TaskReadWith({"read"}, NilErr, {}, TRUE)

\* the code has no line that ends the stream and drops what ReadString
\* returns along with an error
TaskRead == TaskReadWith({"read"}, NilErr, {}, FALSE)

\* faulty variant: the text channel is closed where the error channel should
\* be, and the error channel is left open
TaskCloseTextFirst ==
    /\ tpc = "closeErr"
    /\ textChan' = "closed"
    /\ tpc' = "closeText"
    /\ UNCHANGED <<req, errChan, resp, rd, chunk>>
    /\ UNCHANGED <<flagVars, orchVars, ghostVars, regVars>>

\* the deferred calls, last registered first: resp.Body.Close(),
\* close(errChan), then close(textChan)
TaskCloseErr ==
    /\ tpc = "closeErr"
    /\ errChan' = [errChan EXCEPT !.closed = TRUE]
    /\ tpc' = "closeText"
    /\ UNCHANGED <<req, textChan, resp, rd, chunk>>
    /\ UNCHANGED <<flagVars, orchVars, ghostVars, regVars>>

TaskCloseText ==
    /\ tpc = "closeText"
    /\ textChan' = "closed"
    /\ tpc' = "done"
    /\ UNCHANGED <<req, errChan, resp, rd, chunk>>
    /\ UNCHANGED <<flagVars, orchVars, ghostVars, regVars>>

----------------------------------------------------------------------------
(* Cancellation of the context given to StreamChat *)

\* the caller cancels the context while the loop runs; cancelAt keeps the
\* round, the chunks received in it and the goroutine's position
Cancel ==
    /\ pc \in {"loop", "select"}
    /\ ~ctxDone
    /\ ctxDone' = TRUE
    /\ cancelAt' = [round |-> round,
                    chunks |-> IF pc = "select" THEN Len(emitted) ELSE 0,
                    tpc |-> IF pc = "select" THEN tpc ELSE "idle"]
    /\ UNCHANGED <<pc, cfg, agentA, agentB, messages, currentText,
                   currentAgent, round, fullResponse, retErr>>
    /\ UNCHANGED <<timer, sinceEvent, elapsed, fnCall>>
    /\ UNCHANGED <<flagVars, taskVars, ghostVars, regVars>>

\* p.client.Do(httpReq) under a cancelled context: the client's error is sent
TaskRequestCancelled ==
    /\ tpc = "request"
    /\ ctxDone
    /\ SendErrAndReturn(Wrap("Post", Canceled))
    /\ UNCHANGED <<req, textChan, resp, rd, chunk>>
    /\ UNCHANGED <<healthCalls, healthRes, streamCalls, emitted, nilRecv>>
    /\ UNCHANGED <<flagVars, orchVars, auxVars, regVars>>

\* case <-ctx.Done() at the top of the read loop
TaskObserveCancelWith(err) ==
    /\ tpc = "read"
    /\ ctxDone
    /\ SendErrAndReturn(err)
    /\ UNCHANGED <<req, textChan, resp, rd, chunk>>
    /\ UNCHANGED <<healthCalls, healthRes, streamCalls, emitted, nilRecv>>
    /\ UNCHANGED <<flagVars, orchVars, auxVars, regVars>>

\* faulty variant: the context's own error is sent
TaskObserveCancelCtxErr == TaskObserveCancelWith(Canceled)

TaskObserveCancel == TaskObserveCancelWith(ErrContextCancelled)

\* reader.ReadString('\n') was blocked on the body when the context was
\* cancelled: the read fails with the context's error, which is sent
TaskReadCancelled ==
    /\ tpc = "read"
    /\ ctxDone
    /\ cancelAt.tpc = "read"
    /\ SendErrAndReturn(Canceled)
    /\ UNCHANGED <<req, textChan, resp, rd, chunk>>
    /\ UNCHANGED <<healthCalls, healthRes, streamCalls, emitted, nilRecv>>
    /\ UNCHANGED <<flagVars, orchVars, auxVars, regVars>>

\* case <-ctx.Done() of the select that sends the content: the chunk is
\* dropped
TaskSendCancelled ==
    /\ tpc = "send"
    /\ ctxDone
    /\ SendErrAndReturn(ErrContextCancelled)
    /\ chunk' = <<>>
    /\ UNCHANGED <<req, textChan, resp, rd>>
    /\ UNCHANGED <<healthCalls, healthRes, streamCalls, emitted, nilRecv>>
    /\ UNCHANGED <<flagVars, orchVars, auxVars, regVars>>

----------------------------------------------------------------------------
(* The run of `chat-bridge start` *)

Init ==
    /\ providerRegistry = InitRegistry
    /\ providerFactories = InitFactories
    /\ regLog = <<OpenAISpec>>
    /\ facLog = << <<"openai", "NewOpenAIProvider">> >>
    /\ lastCall = NoCall
    /\ RunInit

Next ==
    \/ LoadAndValidate /\ UNCHANGED auxVars
    \/ BuildA /\ UNCHANGED auxVars
    \/ BuildB /\ UNCHANGED auxVars
    \/ HealthA /\ UNCHANGED auxVars
    \/ HealthB /\ UNCHANGED auxVars
    \/ RoundStart /\ UNCHANGED auxVars
    \/ LoopExit /\ UNCHANGED auxVars
    \/ RecvText /\ UNCHANGED auxVars
    \/ StreamDone /\ UNCHANGED auxVars
    \/ RecvErr /\ UNCHANGED auxVars
    \/ RecvErrClosed /\ UNCHANGED auxVars
    \/ Timeout /\ UNCHANGED auxVars
    \/ TaskRequest /\ UNCHANGED auxVars
    \/ TaskRead /\ UNCHANGED auxVars
    \/ TaskCloseErr /\ UNCHANGED auxVars
    \/ TaskCloseText /\ UNCHANGED auxVars

Spec == Init /\ [][Next]_vars

----------------------------------------------------------------------------
(* The registry under the calls of its API, after package initialisation *)

RegInit ==
    /\ providerRegistry = InitRegistry
    /\ providerFactories = InitFactories
    /\ regLog = <<OpenAISpec>>
    /\ facLog = << <<"openai", "NewOpenAIProvider">> >>
    /\ lastCall = NoCall
    /\ RunInit
    /\ env = EmptyMap /\ providerA = "openai" /\ providerB = "openai"
    /\ modelA = "" /\ tempB = 7 /\ maxRounds = 0

RegNext ==
    \/ DoRegisterProvider
    \/ DoRegisterProviderFactory
    \/ DoGetProviderSpec
    \/ DoListProviders
    \/ DoGetProviderFactory
    \/ DoNewProvider

RegSpec == RegInit /\ [][RegNext]_vars

----------------------------------------------------------------------------
(* The run with two OpenAI agents under a caller that may cancel the       *)
(* context of the loop                                                      *)

CancelInit ==
    /\ Init
    /\ env = [k \in {"OPENAI_API_KEY"} |-> "sk-a"]
    /\ providerA = "openai" /\ providerB = "openai"
    /\ modelA = "" /\ tempB = 9
    /\ maxRounds = MaxRounds

CancelNext ==
    \/ Next
    \/ Cancel
    \/ TaskRequestCancelled
    \/ TaskObserveCancel
    \/ TaskReadCancelled
    \/ TaskSendCancelled

CancelSpec == CancelInit /\ [][CancelNext]_vars

----------------------------------------------------------------------------
(* One round of the run with the clock of its select loop, in seconds *)

\* time.After(30 * time.Second)
IdleWindow == 30

\* no case of the select but the timer's can be taken: no chunk is offered,
\* the text channel is open, the error channel is empty and open
Waiting ==
    /\ pc = "select"
    /\ tpc \in {"request", "read"}
    /\ textChan = "open"
    /\ errChan.buf = <<>> /\ ~errChan.closed

\* a second passes while the select waits
Tick ==
    /\ Waiting
    /\ timer < IdleWindow
    /\ elapsed < MaxElapsed
    /\ timer' = timer + 1
    /\ sinceEvent' = sinceEvent + 1
    /\ elapsed' = elapsed + 1
    /\ UNCHANGED <<cancelAt, fnCall, flagVars, orchVars, taskVars, ghostVars,
                   regVars>>

\* StreamChat is called and the select is entered for the first time
StartClock ==
    /\ timer' = 0 /\ sinceEvent' = 0 /\ elapsed' = 0
    /\ UNCHANGED <<cancelAt, fnCall>>

\* faulty variant: one timer, created before the loop, bounds the whole call
OneTimer ==
    /\ sinceEvent' = 0
    /\ UNCHANGED <<timer, elapsed, cancelAt, fnCall>>

\* the select is evaluated again after a receive: time.After makes a new
\* timer
NewTimer ==
    /\ timer' = 0 /\ sinceEvent' = 0
    /\ UNCHANGED <<elapsed, cancelAt, fnCall>>

\* the timer's case is ready once the timer has run the whole window
Expired == timer = IdleWindow

TimedInit ==
    /\ Init
    /\ env = [k \in {"OPENAI_API_KEY"} |-> "sk-a"]
    /\ providerA = "openai" /\ providerB = "openai"
    /\ modelA = "" /\ tempB = 9
    /\ maxRounds = 1

TimedNext ==
    \/ LoadAndValidate /\ UNCHANGED auxVars
    \/ BuildA /\ UNCHANGED auxVars
    \/ BuildB /\ UNCHANGED auxVars
    \/ HealthA /\ UNCHANGED auxVars
    \/ HealthB /\ UNCHANGED auxVars
    \/ RoundStart /\ StartClock
    \/ LoopExit /\ UNCHANGED auxVars
    \/ RecvText /\ NewTimer
    \/ StreamDone /\ UNCHANGED auxVars
    \/ RecvErr /\ UNCHANGED auxVars
    \/ RecvErrClosed /\ NewTimer
    \/ Timeout /\ Expired /\ UNCHANGED auxVars
    \/ TaskRequest /\ UNCHANGED auxVars
    \/ TaskRead /\ UNCHANGED auxVars
    \/ TaskCloseErr /\ UNCHANGED auxVars
    \/ TaskCloseText /\ UNCHANGED auxVars
    \/ Tick

TimedSpec == TimedInit /\ [][TimedNext]_vars

----------------------------------------------------------------------------
(* The run with two OpenAI agents and a round limit of at least 1, where   *)
(* the scheduler keeps running whatever can run                            *)

FairInit ==
    /\ Init
    /\ env = [k \in {"OPENAI_API_KEY"} |-> "sk-a"]
    /\ providerA = "openai" /\ providerB = "openai"
    /\ maxRounds >= 1

FairSpec == FairInit /\ [][Next]_vars /\ WF_vars(Next)

----------------------------------------------------------------------------
(* One StreamChat call against bodies made of every kind of SSE line *)

\* The kinds of line, each with the delta content of its first choice when
\* the line is a well-formed `data: ` line with a first choice, else <<>>
SseCatalogue ==
    {[line |-> <<"data: ", "{a}">>,       content |-> <<"a">>],
     [line |-> <<"data: ", "{b}">>,       content |-> <<"b">>],
     [line |-> <<"data: ", "{b,a}">>,     content |-> <<"b">>],
     [line |-> <<"data: ", "{a}", " ">>,  content |-> <<"a">>],
     [line |-> <<"data: ", "{empty}">>,   content |-> <<>>],
     [line |-> <<"data: ", "{}">>,        content |-> <<>>],
     [line |-> <<"data: ", "{bad">>,      content |-> <<>>],
     [line |-> <<"data: ", "[DONE]">>,    content |-> <<>>],
     [line |-> <<"event: x">>,            content |-> <<>>],
     [line |-> <<" ">>,                   content |-> <<>>],
     [line |-> <<>>,                      content |-> <<>>]}

SseLines == {c.line : c \in SseCatalogue}

SseResponses ==
    {HttpResp(FALSE, 200, "", ls, e) :
        ls \in SeqsUpTo(SseLines, MaxSseLines), e \in {"EOF", "err"}}

\* Responses with another status; their body is text that would parse as
\* one SSE frame
ErrorResponses ==
    {HttpResp(FALSE, st, "data: {a}", << <<"data: ", "{a}">> >>, "EOF") :
        st \in {204, 401, 500}}

\* What may follow the last newline of a body
SseTails ==
    {<<"data: ", "{a}">>, <<"data: ", "{bad">>, <<"data: ", "[DONE]">>}

\* Bodies whose last line has no newline
PartialResponses ==
    {HttpRespPartial(ls, t, e) :
        ls \in SeqsUpTo(RunLines, MaxLines), t \in SseTails,
        e \in {"EOF", "err"}}

\* faulty variant: every 2xx status is streamed
SseRequestAny2xx ==
    TaskRequestAccepting(SseResponses \cup ErrorResponses \cup PartialResponses,
                         {200, 204})

SseRequest ==
    TaskRequestFrom(SseResponses \cup ErrorResponses \cup PartialResponses)

SseInit ==
    /\ Init
    /\ env = [k \in {"OPENAI_API_KEY"} |-> "sk-a"]
    /\ providerA = "openai" /\ providerB = "openai"
    /\ modelA = "" /\ tempB = 9
    /\ maxRounds = 1

SseNext ==
    \/ LoadAndValidate /\ UNCHANGED auxVars
    \/ BuildA /\ UNCHANGED auxVars
    \/ BuildB /\ UNCHANGED auxVars
    \/ HealthA /\ UNCHANGED auxVars
    \/ HealthB /\ UNCHANGED auxVars
    \/ RoundStart /\ UNCHANGED auxVars
    \/ LoopExit /\ UNCHANGED auxVars
    \/ RecvText /\ UNCHANGED auxVars
    \/ StreamDone /\ UNCHANGED auxVars
    \/ RecvErr /\ UNCHANGED auxVars
    \/ RecvErrClosed /\ UNCHANGED auxVars
    \/ Timeout /\ UNCHANGED auxVars
    \/ SseRequest /\ UNCHANGED auxVars
    \/ TaskRead /\ UNCHANGED auxVars
    \/ TaskCloseErr /\ UNCHANGED auxVars
    \/ TaskCloseText /\ UNCHANGED auxVars

SseSpec == SseInit /\ [][SseNext]_vars

----------------------------------------------------------------------------
(* Direct calls of Health and convertMessages on an OpenAI provider *)

\* The responses of GET <baseURL>/models given to Health
HealthInputs ==
    {HttpResp(TRUE, 0, "", <<>>, "EOF")}
    \cup {HttpResp(FALSE, st, b, <<>>, "EOF") :
            st \in {200, 201, 204, 301, 400, 401, 403, 404, 500, 503},
            b \in {"", "oops"}}

\* The messages given to convertMessages
SomeMessages ==
    {Message(r, c) : r \in {"user", "assistant", "system"},
                     c \in {<<>>, <<"h">>}}

DoHealth ==
    /\ \E r \in HealthInputs :
         fnCall' = [op |-> "Health", arg |-> r, out |-> Health(r)]
    /\ UNCHANGED <<cancelAt, timer, sinceEvent, elapsed>>
    /\ UNCHANGED <<flagVars, orchVars, taskVars, ghostVars, regVars>>

DoConvertMessages ==
    /\ \E m \in SeqsUpTo(SomeMessages, MaxMsgs) :
         fnCall' = [op |-> "convertMessages", arg |-> m,
                    out |-> convertMessages(m)]
    /\ UNCHANGED <<cancelAt, timer, sinceEvent, elapsed>>
    /\ UNCHANGED <<flagVars, orchVars, taskVars, ghostVars, regVars>>

FnNext ==
    \/ DoHealth
    \/ DoConvertMessages

FnSpec == RegInit /\ [][FnNext]_vars

----------------------------------------------------------------------------
(* The run under every combination of configured API keys *)

KeyVars ==
    {"OPENAI_API_KEY", "ANTHROPIC_API_KEY", "GEMINI_API_KEY",
     "DEEPSEEK_API_KEY", "OPENROUTER_API_KEY"}

\* the environments that set some of the five keys
KeyEnvs == {[k \in K |-> "sk"] : K \in SUBSET KeyVars}

ValidateInit ==
    /\ providerRegistry = InitRegistry
    /\ providerFactories = InitFactories
    /\ regLog = <<OpenAISpec>>
    /\ facLog = << <<"openai", "NewOpenAIProvider">> >>
    /\ lastCall = NoCall
    /\ env \in KeyEnvs
    /\ providerA \in {"openai", "anthropic"}
    /\ providerB \in {"openai", "anthropic"}
    /\ modelA = "" /\ modelB = ""
    /\ tempA = 7 /\ tempB = 7
    /\ maxRounds = 1
    /\ pc = "validate"
    /\ cfg = ZeroConfig
    /\ agentA = Nil /\ agentB = Nil
    /\ ctxDone = FALSE
    /\ messages = <<>>
    /\ currentText = <<>>
    /\ currentAgent = "A"
    /\ round = 0
    /\ fullResponse = <<>>
    /\ retErr = NilErr
    /\ req = NoRequest
    /\ textChan = "nil"
    /\ errChan = [buf |-> <<>>, closed |-> FALSE]
    /\ tpc = "idle"
    /\ resp = NoResp
    /\ rd = 0
    /\ chunk = <<>>
    /\ healthCalls = [s \in Sides |-> 0]
    /\ healthRes = [s \in Sides |-> NotCalled]
    /\ streamCalls = [s \in Sides |-> 0]
    /\ emitted = <<>>
    /\ errPlaced = NilErr
    /\ nilRecv = FALSE
    /\ cancelAt = NotCancelled
    /\ timer = 0
    /\ sinceEvent = 0
    /\ elapsed = 0
    /\ fnCall = NoFnCall

ValidateSpec == ValidateInit /\ [][Next]_vars

----------------------------------------------------------------------------
(* Properties of the run *)

IsPrefix(a, b) == Len(a) <= Len(b) /\ SubSeq(b, 1, Len(a)) = a

NoCalls == [s \in Sides |-> 0]

\* Nothing was sent to either backend and no history exists
NoNetworkCall ==
    /\ healthCalls = NoCalls
    /\ streamCalls = NoCalls
    /\ messages = <<>>
    /\ textChan = "nil"
    /\ tpc = "idle"

\* C1: once the goroutine of a round has placed an error on errChan, the run
\* is in that round's wait or has ended Aborted, with that error unless the
\* idle timeout had ended it before: no assistant message is appended for the
\* round and no later round starts.
C1_StreamErrorAborts ==
    errPlaced # NilErr =>
        /\ pc \in {"select", "aborted"}
        /\ Len(messages) = 2 * round - 1
        /\ messages[Len(messages)].Role = "user"
        /\ (pc = "aborted" /\ retErr # ErrStreamTimeout) => retErr = errPlaced

\* C2: while the text stream of the current round is open, the last entry of
\* the history is the round's user message and the accumulated reply is not in
\* the history; an assistant message is appended only by the orchestrator
\* observing the text stream closed.
C2_OpenStream ==
    textChan = "open" =>
        /\ pc \in {"select", "aborted"}
        /\ Len(messages) = 2 * round - 1
        /\ messages[Len(messages)] = Message("user", currentText)
        /\ \A i \in 1..Len(messages) :
             messages[i].Role = "assistant" => i < 2 * round - 1

C2_AppendStep ==
    (/\ Len(messages') > Len(messages)
     /\ messages'[Len(messages')].Role = "assistant")
    => (pc = "select" /\ textChan = "closed")

C2_AssistantOnlyAfterClose == [](C2_OpenStream) /\ [][C2_AppendStep]_vars

C2_Witness ==
    /\ pc = "select"
    /\ textChan = "open"
    /\ tpc = "send"
    /\ fullResponse = <<"a">>
    /\ round = 2

\* C3: the history alternates user, assistant, user, ... from a user entry
\* that carries the starter, and every later user entry repeats the content of
\* the assistant entry before it.
C3_Framing ==
    /\ \A i \in 1..Len(messages) :
         messages[i].Role = IF i % 2 = 1 THEN "user" ELSE "assistant"
    /\ Len(messages) >= 1 => messages[1].Content = starter
    /\ \A i \in 2..Len(messages) :
         i % 2 = 1 => messages[i].Content = messages[i - 1].Content

C3_Witness ==
    /\ Len(messages) = 4
    /\ messages[2].Content = <<"a", "b">>
    /\ messages[3] = Message("user", <<"a", "b">>)
    /\ messages[4].Content = <<"b">>

\* C4: a round whose stream delivered chunks c1..cn and closed with no error
\* leaves the history it was called with, followed by one assistant entry whose
\* content is c1..cn concatenated in the order of delivery.
C4_RoundStep ==
    (pc = "select" /\ pc' = "loop" /\ errPlaced = NilErr)
    => /\ req.Messages = messages
       /\ messages[Len(messages)].Role = "user"
       /\ messages' = Append(req.Messages, Message("assistant", Concat(emitted)))

C4_RoundTrip == [][C4_RoundStep]_vars

C4_Witness ==
    /\ pc = "loop"
    /\ errPlaced = NilErr
    /\ emitted = << <<"b">>, <<"a">> >>
    /\ messages = <<Message("user", starter), Message("assistant", <<"b", "a">>)>>

\* C5: the history is append-only, one entry at a time; its length is 2k after
\* k completed rounds and 2k+1 while round k+1 is active or was aborted.
C5_Length ==
    /\ round = 0 => messages = <<>>
    /\ (round >= 1 /\ pc \in {"loop", "finished"}) => Len(messages) = 2 * (round - 1)
    /\ (round >= 1 /\ pc \in {"select", "aborted"}) => Len(messages) = 2 * (round - 1) + 1

C5_Step ==
    /\ IsPrefix(messages, messages')
    /\ Len(messages') <= Len(messages) + 1
    /\ round' \in {round, round + 1}
    /\ (pc = "loop" /\ pc' = "select") =>
          messages' = Append(messages, Message("user", currentText))

C5_AppendOnly == [](C5_Length) /\ [][C5_Step]_vars

C5_Witness ==
    /\ pc = "aborted"
    /\ round = 2
    /\ Len(messages) = 3
    /\ retErr = ErrStreamTimeout

\* C6: agent A's health check comes first and agent B's only after A's
\* passed; a failed health check ends the run; StreamChat is called only
\* after both passed.
C6_HealthGate ==
    /\ \A s \in Sides : healthCalls[s] <= 1
    /\ \A s \in Sides : healthCalls[s] = 0 <=> healthRes[s] = NotCalled
    /\ healthCalls["B"] > 0 => healthRes["A"] = NilErr
    /\ \A s \in Sides :
         healthRes[s] \notin {NotCalled, NilErr} =>
            /\ pc = "aborted"
            /\ retErr = Wrap("Agent " \o s \o " health check failed", healthRes[s])
            /\ streamCalls = NoCalls
            /\ tpc = "idle"
    /\ (streamCalls # NoCalls \/ tpc # "idle") =>
          healthRes = [s \in Sides |-> NilErr]

C6_Witness ==
    /\ pc = "aborted"
    /\ healthRes["A"] = ErrInvalidCredentials
    /\ healthCalls = [s \in Sides |-> IF s = "A" THEN 1 ELSE 0]

\* C7: when NewProvider fails for side A, or for side B, the run ends with
\* that error and without any Health or StreamChat call, and there is no
\* history.
C7_BuildGate ==
    LET ra == buildProvider(cfg, providerA, GetAPIKey(cfg, providerA), modelA, tempA)
        rb == buildProvider(cfg, providerB, GetAPIKey(cfg, providerB), modelB, tempB)
    IN  /\ (pc \notin {"validate", "buildA"} /\ Validate(cfg) = NilErr
            /\ ra.err # NilErr)
           => (pc = "aborted" /\ retErr = ra.err /\ NoNetworkCall /\ agentB = Nil)
        /\ (pc \notin {"validate", "buildA", "buildB"} /\ Validate(cfg) = NilErr
            /\ ra.err = NilErr /\ rb.err # NilErr)
           => (pc = "aborted" /\ retErr = rb.err /\ NoNetworkCall)

C7_Witness ==
    /\ pc = "aborted"
    /\ providerA = "openai"
    /\ retErr = ErrNotImplemented("anthropic")
    /\ agentA # Nil

----------------------------------------------------------------------------
(* Properties of the registry *)

\* The index of the last entry of log whose key (given by KeyOf) is k, 0 if none
LastIndex(log, k, KeyOf(_)) ==
    LET I == {i \in 1..Len(log) : KeyOf(log[i]) = k} IN
    IF I = {} THEN 0 ELSE CHOOSE i \in I : \A j \in I : j <= i

SpecKey(spec) == spec.Key

PairKey(pair) == pair[1]

\* C8: for a key with no registered factory, with or without a spec,
\* NewProvider returns the nil instance and the "not yet implemented" error;
\* a NewProvider call changes neither map.
C8_NoFactory ==
    \A k \in Keys, config \in ProviderConfigs :
       k \notin DOMAIN providerFactories =>
          LET r == NewProvider(providerRegistry, providerFactories, k, config) IN
          r.provider = Nil /\ r.err # NilErr /\ r.err = ErrNotImplemented(k)

C8_Frame ==
    lastCall'.op = "NewProvider" =>
        UNCHANGED <<providerRegistry, providerFactories>>

C8_NotImplemented == [](C8_NoFactory) /\ [][C8_Frame]_vars

C8_Witness ==
    /\ lastCall.op = "NewProvider"
    /\ lastCall.key = "anthropic"
    /\ "anthropic" \in DOMAIN providerRegistry
    /\ "anthropic" \notin DOMAIN providerFactories
    /\ lastCall.provider = Nil
    /\ lastCall.err = ErrNotImplemented("anthropic")

\* C9 as claimed: for every key with a spec and a factory, NewProvider returns
\* no error and an instance named as the key whose default model is the
\* configured model or, when that is empty, the default model of the spec
\* registered for the key.
C9_Claimed ==
    \A k \in DOMAIN providerRegistry \cap DOMAIN providerFactories :
       \A config \in ProviderConfigs :
          LET r == NewProvider(providerRegistry, providerFactories, k, config) IN
          /\ r.err = NilErr
          /\ Name(r.provider) = k
          /\ DefaultModel(r.provider) =
                IF config.Model # "" THEN config.Model
                ELSE providerRegistry[k].DefaultModel

\* C9 as amended: for every key whose factory is the one openai.go registers,
\* NewProvider returns no error and an instance named "openai" whose default
\* model is the configured model or, when that is empty, "gpt-4o-mini", the
\* default model of the spec registered at initialisation.
C9_OpenAIFactory ==
    \A k \in DOMAIN providerFactories :
       providerFactories[k] = "NewOpenAIProvider" =>
          \A config \in ProviderConfigs :
             LET r == NewProvider(providerRegistry, providerFactories, k, config) IN
             /\ r.err = NilErr
             /\ Name(r.provider) = "openai"
             /\ DefaultModel(r.provider) =
                   IF config.Model # "" THEN config.Model
                   ELSE OpenAISpec.DefaultModel

C9_Witness ==
    /\ lastCall.op = "NewProvider"
    /\ lastCall.key = "openai"
    /\ providerFactories["openai"] = "NewOpenAIProvider"
    /\ providerRegistry["openai"].DefaultModel = "gpt-4o"
    /\ lastCall.config.Model = ""
    /\ DefaultModel(lastCall.provider) = "gpt-4o-mini"

\* C10: GetProviderSpec finds, for every key, exactly the spec of the last
\* RegisterProvider call for that key, and nothing when there was none;
\* NewProvider uses the factory of the last RegisterProviderFactory call for
\* the key; registering the same value again changes nothing.
C10_LastWriteWins ==
    /\ \A k \in Keys :
         LET n == LastIndex(regLog, k, SpecKey)
             r == GetProviderSpec(providerRegistry, k)
         IN  IF n = 0 THEN ~r.ok ELSE r.ok /\ r.spec = regLog[n]
    /\ \A k \in Keys :
         LET n == LastIndex(facLog, k, PairKey)
             f == GetProviderFactory(providerFactories, k)
         IN  /\ IF n = 0 THEN ~f.ok ELSE f.ok /\ f.factory = facLog[n][2]
             /\ \A config \in ProviderConfigs :
                  LET r == NewProvider(providerRegistry, providerFactories, k, config) IN
                  IF n = 0 THEN r.provider = Nil
                  ELSE r.provider = ApplyFactory(facLog[n][2], config)
    /\ \A spec \in Specs :
         RegisterProvider(RegisterProvider(providerRegistry, spec), spec)
            = RegisterProvider(providerRegistry, spec)
    /\ \A k \in Keys, f \in Factories :
         RegisterProviderFactory(RegisterProviderFactory(providerFactories, k, f), k, f)
            = RegisterProviderFactory(providerFactories, k, f)

C10_Witness ==
    /\ Len(regLog) = 3
    /\ regLog[2].Key = "openai" /\ regLog[3].Key = "openai"
    /\ regLog[2] # regLog[3]
    /\ providerRegistry["openai"] = regLog[3]
    /\ Len(facLog) = 2
    /\ facLog[2] = <<"openai", "StubFactory">>

----------------------------------------------------------------------------
(* Cancellation *)

\* C11 (as claimed): when the context is cancelled after the first chunk of
\* a round was received and before the stream completed, the run stays in
\* that round, does not append the partial reply (the history ends with the
\* round's user entry) and, if it ends on an error of the stream, ends on a
\* cancellation error.
C11_CancelMidStream ==
    (cancelAt.chunks >= 1 /\ cancelAt.tpc \in {"read", "send"}) =>
        /\ round = cancelAt.round
        /\ pc \in {"select", "aborted"}
        /\ Len(messages) = 2 * round - 1
        /\ messages[Len(messages)].Role = "user"
        /\ (pc = "aborted" /\ retErr # ErrStreamTimeout) =>
               retErr \in {ErrContextCancelled, Canceled}

\* the goroutine has sent the error of a cancellation
ObservedCancel ==
    /\ ctxDone
    /\ errPlaced \in {ErrContextCancelled, Canceled, Wrap("Post", Canceled)}

\* within one StreamChat call
SameCall == streamCalls' = streamCalls

\* once the context is cancelled no further line is read, and once the
\* goroutine has sent the cancellation's error no chunk is emitted
C12_Stops ==
    /\ (ctxDone /\ SameCall) => rd' = rd
    /\ (ObservedCancel /\ SameCall) =>
           /\ emitted' = emitted
           /\ errPlaced' = errPlaced
           /\ tpc' \in {"closeErr", "closeText", "done"}

\* C12 (as claimed): after a cancellation the goroutine stops reading,
\* sends exactly ErrContextCancelled, and emits no chunk afterwards.
C12_Claimed ==
    [][/\ C12_Stops
       /\ (ctxDone /\ errPlaced = NilErr /\ errPlaced' # NilErr) =>
              errPlaced' = ErrContextCancelled]_vars

\* C12 (amended): after a cancellation the goroutine stops reading and
\* emits no chunk once it has sent its error; the error is exactly
\* ErrContextCancelled when the cancellation is seen before a read or while
\* a chunk waits to be sent, the HTTP client's "context canceled" error when
\* the request is cut, and the context's error when a blocked read is cut.
C12_CancelSurfaced ==
    [][/\ C12_Stops
       /\ (ctxDone /\ errPlaced = NilErr /\ errPlaced' # NilErr) =>
              /\ tpc' = "closeErr"
              /\ tpc = "request" => errPlaced' = Wrap("Post", Canceled)
              /\ tpc = "send" => errPlaced' = ErrContextCancelled
              /\ tpc = "read" =>
                     /\ errPlaced' \in {ErrContextCancelled, Canceled}
                     /\ errPlaced' = Canceled => cancelAt.tpc = "read"]_vars

\* a chunk was emitted, the context was cancelled while the chunk after it
\* waited to be sent, and the goroutine sent ErrContextCancelled and returned
C12_Witness ==
    /\ ctxDone
    /\ cancelAt.tpc = "send"
    /\ cancelAt.chunks >= 1
    /\ errPlaced = ErrContextCancelled
    /\ tpc = "done"
    /\ Len(emitted) = cancelAt.chunks

----------------------------------------------------------------------------
(* The idle timeout *)

\* StreamChat calls made so far
TotalCalls == streamCalls["A"] + streamCalls["B"]

C13_State ==
    retErr = ErrStreamTimeout =>
        /\ pc = "aborted"
        /\ Len(messages) = 2 * round - 1
        /\ messages[Len(messages)].Role = "user"
        /\ messages[Len(messages)].Content = currentText
        /\ TotalCalls = round

C13_Step ==
    /\ (retErr # ErrStreamTimeout /\ retErr' = ErrStreamTimeout) =>
           /\ pc = "select" /\ textChan = "open"
           /\ tpc # "send" /\ errChan.buf = <<>> /\ ~errChan.closed
           /\ messages' = messages /\ round' = round
    /\ pc = "aborted" =>
           UNCHANGED <<pc, retErr, messages, round, streamCalls, currentAgent>>

\* C13: the timeout fires only in a round's wait with no chunk offered, no
\* closed text channel and no error; the run is then aborted with the
\* stream-timeout error, the history ends with that round's user entry (no
\* assistant message for the round), and the aborted run starts no round.
C13_IdleTimeoutAborts == [](C13_State) /\ [][C13_Step]_vars

\* the wait of round 2 timed out after a chunk of the round was received
C13_Witness ==
    /\ retErr = ErrStreamTimeout
    /\ round = 2
    /\ emitted # <<>>
    /\ Len(messages) = 3

\* the timer's case can be taken
TimeoutReady == ENABLED (Timeout /\ Expired /\ UNCHANGED auxVars)

\* C14: the timeout is taken only when the window has passed in full since
\* the select loop last received anything, whatever the time since the call
\* began; while less than the window has passed since the last receive the
\* timeout cannot be taken, and when the wait has lasted the whole window it
\* can.
C14_IdlePerWait ==
    /\ [](Waiting => (TimeoutReady <=> sinceEvent = IdleWindow))
    /\ [][(retErr # ErrStreamTimeout /\ retErr' = ErrStreamTimeout) =>
              sinceEvent = IdleWindow]_vars

\* a call that lasted longer than the window ended without a timeout: its
\* chunk came less than a window after the call, its end less than a window
\* after the chunk
C14_Witness ==
    /\ pc = "finished"
    /\ elapsed > IdleWindow
    /\ emitted # <<>>
    /\ retErr = NilErr

----------------------------------------------------------------------------
(* The request of a round *)

\* StreamChat is called on the instance of this side
CallOn(side) == streamCalls'[side] = streamCalls[side] + 1

\* C15: every StreamChat call is made on one side's instance and its request
\* carries that side's temperature: tempA in a call on agent A, tempB in a
\* call on agent B.
C15_SpeakerTemperature ==
    [][streamCalls' # streamCalls =>
          /\ CallOn(currentAgent)
          /\ streamCalls'[Other(currentAgent)] = streamCalls[Other(currentAgent)]
          /\ CallOn("A") => req'.Temperature = tempA
          /\ CallOn("B") => req'.Temperature = tempB]_vars

\* both sides use the same provider and model with different temperatures,
\* and both an A round and a B round have been requested
C15_Witness ==
    /\ providerA = providerB
    /\ agentA = agentB
    /\ tempA # tempB
    /\ streamCalls["A"] = 1 /\ streamCalls["B"] = 1
    /\ req.Temperature = tempB

----------------------------------------------------------------------------
(* The order of the rounds *)

\* the side that speaks in round r
SpeakerOf(r) == IF r % 2 = 1 THEN "A" ELSE "B"

C16_State ==
    /\ round = 0 => currentAgent = "A"
    /\ round >= 1 => currentAgent = SpeakerOf(round)
    /\ streamCalls["A"] = (TotalCalls + 1) \div 2
    /\ streamCalls["B"] = TotalCalls \div 2

C16_Step ==
    /\ streamCalls' # streamCalls =>
           /\ TotalCalls' = round
           /\ CallOn(SpeakerOf(round))
           /\ req'.Model = DefaultModel(Agent(SpeakerOf(round)))
    /\ currentAgent' # currentAgent =>
           /\ pc = "select" /\ textChan = "closed" /\ pc' = "loop"
           /\ round' = round + 1
    /\ (round >= 1 /\ round' # round) => currentAgent' = Other(currentAgent)
    /\ pc = "aborted" => currentAgent' = currentAgent

\* C16: round r calls StreamChat on agent A's instance when r is odd and on
\* agent B's when r is even; the speaker changes to the other side exactly
\* when a round completes (the closed text channel is received and the round
\* number grows), never while a round runs and never after an abort.
C16_Alternation == [](C16_State) /\ [][C16_Step]_vars

\* two rounds completed, A's then B's, and A would speak next
C16_Witness ==
    /\ pc = "finished"
    /\ round = 3
    /\ currentAgent = "A"
    /\ streamCalls["A"] = 1 /\ streamCalls["B"] = 1

\* the goroutine of the last StreamChat call has returned and its deferred
\* calls have closed both channels
TaskOver == tpc = "done" /\ textChan = "closed" /\ errChan.closed

\* C17: between two rounds no StreamChat goroutine runs: when the loop is
\* about to call StreamChat, the goroutine of the round before (if any) has
\* returned and closed errChan and textChan, so at most one goroutine runs.
C17_Sequential ==
    /\ [](pc = "loop" => IF round = 1 THEN tpc = "idle" ELSE TaskOver)
    /\ [][streamCalls' # streamCalls =>
              /\ IF round = 1 THEN tpc = "idle" ELSE TaskOver
              /\ tpc' = "request"]_vars

\* the goroutine of round 2 is reading while the history holds round 1's
\* reply
C17_Witness ==
    /\ round = 2
    /\ pc = "select"
    /\ tpc = "read"
    /\ Len(messages) = 3
    /\ streamCalls["A"] = 1 /\ streamCalls["B"] = 1

\* C18: the request of round r carries the whole history, which is the
\* history before the call followed by the round's user entry, 2r-1 entries
\* in all; its model is the DefaultModel() of the instance called, and its
\* MaxTokens is 800.
C18_RequestContent ==
    [][streamCalls' # streamCalls =>
          /\ req'.Messages = messages'
          /\ req'.Messages = Append(messages, Message("user", currentText))
          /\ Len(req'.Messages) = 2 * round - 1
          /\ req'.Model = DefaultModel(Agent(currentAgent))
          /\ req'.MaxTokens = 800]_vars

\* the request of round 2 holds three entries: user, assistant, user
C18_Witness ==
    /\ round = 2
    /\ pc = "select"
    /\ Len(req.Messages) = 3
    /\ req.Messages[2].Role = "assistant"
    /\ req.Messages[3] = Message("user", req.Messages[2].Content)
    /\ req.MaxTokens = 800

----------------------------------------------------------------------------
(* The end of the run *)

C19_State ==
    /\ TotalCalls <= maxRounds
    /\ pc = "finished" =>
           /\ retErr = NilErr
           /\ TotalCalls = maxRounds
           /\ round = maxRounds + 1
           /\ Len(messages) = 2 * maxRounds
    /\ pc = "aborted" => retErr # NilErr

C19_Final ==
    pc \in {"finished", "aborted"} =>
        UNCHANGED <<pc, retErr, round, messages, streamCalls>>

\* C19: a run with limit N >= 1 ends, either aborted with an error (of the
\* configuration, a health check, a stream or the timeout) or finished; it
\* finishes with no error after exactly N StreamChat calls and N completed
\* rounds, and at no time has it made more than N calls.
C19_FinishesAfterN ==
    /\ [](C19_State)
    /\ <>(pc \in {"finished", "aborted"})
    /\ [][C19_Final]_vars

\* the run with the largest limit finished
C19_Witness ==
    /\ pc = "finished"
    /\ maxRounds = MaxRounds
    /\ TotalCalls = MaxRounds
    /\ Len(messages) = 2 * MaxRounds
    /\ retErr = NilErr

----------------------------------------------------------------------------
(* The parsing of the SSE body *)

\* the content the catalogue gives for a line
ContentOf(line) == (CHOOSE c \in SseCatalogue : c.line = line).content

NonEmpty(t) == t # <<>>

\* the non-empty contents of the first n lines, in order
ExpectedChunks(lines, n) ==
    SelectSeq([i \in 1..n |-> ContentOf(lines[i])], NonEmpty)

\* C20: over a 200 response, the chunks the goroutine has sent or offers
\* after reading n lines are exactly the non-empty first-choice contents of
\* the well-formed `data: ` lines among them (a payload that is not JSON, a
\* blank line, `data: [DONE]` and a line without the prefix give nothing);
\* no line makes it send an error, and at EOF it closes with no error.
C20_SseTolerance ==
    (resp.status = 200 /\ ~resp.neterr) =>
        /\ tpc = "read" => emitted = ExpectedChunks(resp.lines, rd - 1)
        /\ tpc = "send" =>
               Append(emitted, chunk) = ExpectedChunks(resp.lines, rd - 1)
        /\ (tpc \in {"closeErr", "closeText", "done"} /\ resp.end = "EOF") =>
               /\ emitted = ExpectedChunks(resp.lines, Len(resp.lines))
               /\ errPlaced = NilErr
               /\ errChan.buf = <<>>
        /\ errPlaced # NilErr => (errPlaced = NetErr /\ resp.end = "err")

\* a payload that is not JSON between two well-formed lines: the two
\* contents were emitted and the stream closed with no error
C20_Witness ==
    /\ resp.lines = << <<"data: ", "{a}">>, <<"data: ", "{bad">>,
                       <<"data: ", "{b}">> >>
    /\ resp.end = "EOF"
    /\ tpc = "done"
    /\ textChan = "closed" /\ errChan.closed
    /\ emitted = << <<"a">>, <<"b">> >>
    /\ errPlaced = NilErr

----------------------------------------------------------------------------
(* The way of the chunks from the body to the orchestrator *)

\* the contents the read loop sends for the first n lines it read, in order
SentOf(lines, n) ==
    SelectSeq([i \in 1..n |-> ChunkOfLine(lines[i])], NonEmpty)

C21_State ==
    /\ fullResponse = Concat(emitted)
    /\ (resp.status = 200 /\ ~resp.neterr) =>
           /\ tpc = "send" =>
                  /\ chunk # <<>>
                  /\ Append(emitted, chunk) = SentOf(resp.lines, rd - 1)
           /\ tpc # "send" => emitted = SentOf(resp.lines, rd - 1)

C21_Step ==
    /\ (SameCall /\ tpc = "send") =>
           /\ rd' = rd
           /\ tpc' = "send" => (chunk' = chunk /\ emitted' = emitted)
           /\ tpc' # "send" => emitted' = Append(emitted, chunk)
    /\ (SameCall /\ tpc # "send") => emitted' = emitted

\* C21: in every round the text the orchestrator has accumulated is the
\* concatenation of the chunks it received, and these are, in order and
\* each once, the contents the goroutine produced from the lines it read;
\* while a chunk is offered the goroutine reads no further line, and the
\* chunk leaves it only by being received.
C21_ChunksInOrder == [](C21_State) /\ [][C21_Step]_vars

\* two chunks of a body went through: a then b
C21_Witness ==
    /\ resp.lines = << <<"data: ", "{a}">>, <<"data: ", "{b}">> >>
    /\ emitted = << <<"a">>, <<"b">> >>
    /\ fullResponse = <<"a", "b">>
    /\ tpc = "done"
    /\ pc = "loop"

----------------------------------------------------------------------------
(* The status and the end of the response *)

\* C22: after a response whose status is not 200 the goroutine has sent the
\* API error with that status and the body, has read no line of the body as
\* an SSE line, has produced and emitted no chunk, and is closing.
C22_Non200 ==
    (resp # NoResp /\ ~resp.neterr /\ resp.status # 200) =>
        /\ errPlaced = APIError(resp.status, resp.body)
        /\ errChan.buf \in {<<>>, <<errPlaced>>}
        /\ rd = 0
        /\ chunk = <<>>
        /\ emitted = <<>>
        /\ fullResponse = <<>>
        /\ tpc \in {"closeErr", "closeText", "done"}

\* status 204 with a body that holds a frame: the API error was sent and
\* both channels are closed with nothing emitted
C22_Witness ==
    /\ resp.status = 204
    /\ resp.lines # <<>>
    /\ errPlaced = APIError(204, "data: {a}")
    /\ tpc = "done"
    /\ emitted = <<>>

\* the goroutine has left the read loop and runs its deferred calls
Closing == tpc \in {"closeErr", "closeText", "done"}

C23_State ==
    /\ (resp.status = 200 /\ ~resp.neterr /\ Closing) =>
           /\ rd = Len(resp.lines) + 1
           /\ resp.end = "EOF" => (errPlaced = NilErr /\ errChan.buf = <<>>)
           /\ resp.end = "err" => errPlaced = NetErr
    /\ tpc = "closeErr" => (~errChan.closed /\ textChan = "open")
    /\ tpc = "closeText" => (errChan.closed /\ textChan = "open")
    /\ tpc = "done" => (errChan.closed /\ textChan = "closed")

C23_Step ==
    (Closing /\ SameCall) =>
        /\ rd' = rd /\ emitted' = emitted /\ errPlaced' = errPlaced
        /\ Closing'

\* C23: the goroutine leaves the read loop of a 200 response only when the
\* read after the last line fails; at io.EOF it has placed no error, at any
\* other read error it has placed that error; from then on it reads and
\* emits nothing and only closes errChan and then textChan.
C23_EOFClosesClean == [](C23_State) /\ [][C23_Step]_vars

\* a body of two lines ended by EOF: both channels closed, no error placed
C23_Witness ==
    /\ resp.status = 200
    /\ Len(resp.lines) = 2
    /\ resp.end = "EOF"
    /\ tpc = "done"
    /\ textChan = "closed" /\ errChan.closed /\ errChan.buf = <<>>
    /\ errPlaced = NilErr

\* a step of the goroutine; its send is the step it shares with the
\* orchestrator's receive
TaskStep ==
    \/ TaskRequest
    \/ TaskRead
    \/ RecvText
    \/ TaskCloseErr
    \/ TaskCloseText

\* C24 (as claimed): a StreamChat goroutine that has not yet closed both
\* channels can always take its next step towards closing them, whatever the
\* orchestrator has done, so that every call ends with both channels closed.
C24_TaskCanAlwaysGoOn ==
    tpc \in {"request", "read", "send", "closeErr", "closeText"} =>
        ENABLED TaskStep

----------------------------------------------------------------------------
(* Health and convertMessages *)

\* C25: Health gives the wrapped connection error when the request fails,
\* ErrInvalidCredentials on status 401, the API error with status and body
\* on every other status but 200, and nil on status 200.
C25_HealthClasses ==
    fnCall.op = "Health" =>
        LET r == fnCall.arg
            e == fnCall.out IN
        /\ r.neterr => e = Wrap("connection failed", NetErr)
        /\ (~r.neterr /\ r.status = 401) => e = ErrInvalidCredentials
        /\ (~r.neterr /\ r.status = 200) => e = NilErr
        /\ (~r.neterr /\ r.status \notin {200, 401}) =>
               (e = APIError(r.status, r.body) /\ e # NilErr)

\* Health was called on a 204 response with a body
C25_Witness ==
    /\ fnCall.op = "Health"
    /\ fnCall.arg.status = 204
    /\ fnCall.arg.body = "oops"
    /\ fnCall.out = APIError(204, "oops")

\* C26: convertMessages(m) has the length of m and its i-th record has the
\* role and the content of m[i], for every i.
C26_ConvertOneToOne ==
    fnCall.op = "convertMessages" =>
        LET m == fnCall.arg
            out == fnCall.out IN
        /\ Len(out) = Len(m)
        /\ \A i \in 1..Len(m) :
               /\ DOMAIN out[i] = {"role", "content"}
               /\ out[i].role = m[i].Role
               /\ out[i].content = m[i].Content

\* a list with the same message twice and no system message was converted
C26_Witness ==
    /\ fnCall.op = "convertMessages"
    /\ fnCall.arg = <<Message("user", <<"h">>), Message("user", <<"h">>),
                      Message("assistant", <<>>)>>
    /\ Len(fnCall.out) = 3
    /\ fnCall.out[2] = fnCall.out[1]

----------------------------------------------------------------------------
(* The two maps of the registry *)

\* map m2 is map m with the entry of key k set to v and nothing else changed
OnlyEntrySet(m, m2, k, v) ==
    /\ DOMAIN m2 = DOMAIN m \cup {k}
    /\ m2[k] = v
    /\ \A j \in DOMAIN m \ {k} : m2[j] = m[j]

C27_Step ==
    /\ regLog' # regLog =>
           /\ lastCall'.op = "RegisterProvider"
           /\ OnlyEntrySet(providerRegistry, providerRegistry',
                           lastCall'.spec.Key, lastCall'.spec)
           /\ providerFactories' = providerFactories
    /\ facLog' # facLog =>
           /\ lastCall'.op = "RegisterProviderFactory"
           /\ OnlyEntrySet(providerFactories, providerFactories',
                           lastCall'.key, lastCall'.factory)
           /\ providerRegistry' = providerRegistry
    /\ lastCall'.op \in {"GetProviderSpec", "ListProviders",
                         "GetProviderFactory", "NewProvider"} =>
           UNCHANGED <<providerRegistry, providerFactories>>

\* C27: RegisterProvider sets the spec map's entry of spec.Key and changes
\* nothing else in either map; RegisterProviderFactory sets the factory
\* map's entry of its key and changes nothing else in either map; the four
\* other calls change neither map.
C27_MapsIndependent == [][C27_Step]_vars

\* "anthropic" has a spec and no factory, "unknown" a factory and no spec
C27_Witness ==
    /\ "anthropic" \in DOMAIN providerRegistry
    /\ "anthropic" \notin DOMAIN providerFactories
    /\ "unknown" \in DOMAIN providerFactories
    /\ "unknown" \notin DOMAIN providerRegistry

----------------------------------------------------------------------------
(* The writer of the history *)

\* the goroutine of the last StreamChat call has not returned
TaskRunning == tpc \in {"request", "read", "send", "closeErr", "closeText"}

C28_Step ==
    /\ messages' # messages =>
           /\ ~TaskRunning
           /\ pc \in {"loop", "select"} /\ pc' # pc
           /\ \E e \in {Message("user", currentText),
                         Message("assistant", fullResponse)} :
                  messages' = Append(messages, e)
    /\ TaskRunning => (messages' = messages /\ req' = req)

\* C28: the history changes only in a step of the orchestrator, by one
\* appended entry, and only while no StreamChat goroutine runs; while a
\* goroutine runs its request, which holds the history itself, stays as it
\* was given.
C28_SingleWriter ==
    /\ [](TaskRunning => req.Messages = messages)
    /\ [][C28_Step]_vars

\* the goroutine of round 2 offers a chunk; its request holds the three
\* entries of the history
C28_Witness ==
    /\ round = 2
    /\ tpc = "send"
    /\ Len(messages) = 3
    /\ req.Messages = messages

----------------------------------------------------------------------------
(* The validation of the configuration *)

\* none of the five keys is set in the environment
NoKeySet == \A k \in KeyVars : Getenv(env, k) = ""

\* C29: once the configuration is validated, the run was stopped with the
\* no-API-keys error exactly when none of the five keys is set, whatever the
\* two selected providers are; a run stopped so has built no provider and
\* made no health check and no StreamChat call.
C29_ValidateGate ==
    pc # "validate" =>
        /\ retErr = ErrNoAPIKeys <=> NoKeySet
        /\ Validate(cfg) = NilErr <=> ~NoKeySet
        /\ NoKeySet =>
               /\ pc = "aborted"
               /\ agentA = Nil /\ agentB = Nil
               /\ healthCalls = [s \in Sides |-> 0]
               /\ TotalCalls = 0

\* only the Gemini key is set and both selected providers are openai: the
\* validation passed and agent A was built
C29_Witness ==
    /\ DOMAIN env = {"GEMINI_API_KEY"}
    /\ providerA = "openai" /\ providerB = "openai"
    /\ pc # "validate"
    /\ retErr # ErrNoAPIKeys
    /\ agentA # Nil

----------------------------------------------------------------------------
(* The default providers *)

\* C30 (as claimed): with the default flags (--provider-a openai,
\* --provider-b anthropic) and at least one key configured, the run is not
\* stopped before its health checks: both providers are built, and only a
\* failing health check or a later stream error can abort it.
C30_DefaultsStart ==
    (providerA = "openai" /\ providerB = "anthropic"
       /\ Validate(Load(env)) = NilErr /\ pc = "aborted") =>
        /\ agentA # Nil /\ agentB # Nil
        /\ healthCalls["A"] >= 1

----------------------------------------------------------------------------
(* The error a run ends with *)

\* the error tells the side: its text names Agent A or Agent B, or it names
\* a provider key that only one of the two sides uses
IdentifiesSide(err) ==
    \/ err.wrap \in {"Agent A health check failed",
                      "Agent B health check failed"}
    \/ (err.kind = "not yet implemented" /\ providerA # providerB)

\* C31 (as claimed): a run aborted by the failure of a side (a provider
\* that cannot be built, a failed health check, a stream error, the idle
\* timeout) returns an error that tells which side failed, and starts no
\* round afterwards.
C31_ErrorNamesSide ==
    (pc = "aborted" /\ retErr # ErrNoAPIKeys) =>
        /\ IdentifiesSide(retErr)
        /\ ~ENABLED RoundStart

----------------------------------------------------------------------------
(* The error channel and the order of the two closes *)

\* the goroutine is at a place from which it may still send
MaySend == tpc \in {"request", "read", "send"}

C32_State ==
    /\ Len(errChan.buf) <= 1
    /\ MaySend => errChan.buf = <<>> /\ ~errChan.closed /\ errPlaced = NilErr
    /\ errPlaced # NilErr => Closing

C32_Step ==
    (SameCall /\ Len(errChan'.buf) > Len(errChan.buf)) =>
        /\ errPlaced = NilErr /\ errPlaced' # NilErr
        /\ errChan.buf = <<>> /\ errChan'.buf = <<errPlaced'>>
        /\ MaySend /\ tpc' = "closeErr"
        /\ UNCHANGED pc

\* C32: within one StreamChat call at most one error is placed on the error
\* channel, the goroutine returns right after the send (its next steps are
\* the deferred closes), and the send finds the buffer of capacity one empty,
\* whatever the orchestrator does.
C32_OneErrorNeverBlocks == [](C32_State) /\ [][C32_Step]_vars

\* the orchestrator gave up on the timeout and receives no more; the
\* goroutine then placed its error and returned
C32_Witness ==
    /\ pc = "aborted" /\ retErr = ErrStreamTimeout
    /\ errPlaced # NilErr /\ errChan.buf = <<errPlaced>>
    /\ tpc = "done"

C33_Step ==
    (SameCall /\ (errPlaced # NilErr \/ errChan.closed \/ textChan = "closed")) =>
        /\ emitted' = emitted
        /\ tpc' # "send"
        /\ textChan' = textChan \/ textChan' = "closed"

\* C33: within one StreamChat call no chunk is emitted on the text channel
\* after an error was placed on the error channel or after either channel
\* was closed.
C33_NoChunkAfterErrorOrClose == [][C33_Step]_vars

\* chunks were emitted, then the call failed and closed both channels
C33_Witness ==
    /\ emitted # <<>> /\ errPlaced # NilErr
    /\ errChan.closed /\ textChan = "closed"

C34_State ==
    /\ textChan = "closed" => errChan.closed /\ tpc = "done"
    /\ (pc = "select" /\ textChan = "closed") =>
          /\ ENABLED StreamDone
          /\ ENABLED RecvErr \/ ENABLED RecvErrClosed
          /\ errPlaced # NilErr => ENABLED RecvErr

C34_Step ==
    /\ (~errChan.closed /\ errChan'.closed) =>
           textChan = "open" /\ textChan' = "open"
    /\ (SameCall /\ textChan = "closed") =>
           errPlaced' = errPlaced /\ errChan'.closed

\* C34: the error channel is closed before the text channel: whenever the
\* text channel is closed the error channel is closed already and the call's
\* error, if any, was placed before; the orchestrator's select then has both
\* the receive from the error channel and the receive from the text channel
\* ready.
C34_ErrClosedBeforeText == [](C34_State) /\ [][C34_Step]_vars

\* both closes are done, the error is still in the buffer, the select waits
C34_Witness ==
    /\ pc = "select" /\ textChan = "closed"
    /\ errPlaced # NilErr /\ errChan.buf = <<errPlaced>>

----------------------------------------------------------------------------
(* `data: [DONE]` and a last line without a newline *)

DoneLine == <<"data: ", "[DONE]">>

\* the goroutine reads a line of the body that is `data: [DONE]`
ReadsDone ==
    /\ tpc = "read" /\ rd' = rd + 1
    /\ rd <= Len(resp.lines) /\ TrimSpace(resp.lines[rd]) = DoneLine

C35_Step ==
    (SameCall /\ ReadsDone) =>
        /\ tpc' = "read"
        /\ UNCHANGED <<emitted, errPlaced, errChan, textChan, chunk>>

C35_State ==
    (resp.status = 200 /\ ~resp.neterr /\ Closing) =>
        /\ rd = Len(resp.lines) + 1
        /\ emitted = ExpectedChunks(resp.lines, Len(resp.lines))

\* C35: reading the line `data: [DONE]` leaves the goroutine in its read
\* loop with nothing sent and nothing closed; the goroutine leaves the loop
\* only when the read after the last line fails, and by then every
\* well-formed frame of the body, those after `data: [DONE]` included, was
\* emitted.
C35_DoneIsSkipped == [](C35_State) /\ [][C35_Step]_vars

\* a frame after `data: [DONE]` was emitted and the call closed at EOF
C35_Witness ==
    /\ resp.lines = << <<"data: ", "{a}">>, DoneLine, <<"data: ", "{b}">> >>
    /\ resp.end = "EOF"
    /\ emitted = << <<"a">>, <<"b">> >>
    /\ tpc = "done" /\ errPlaced = NilErr

\* the read after the last newline-terminated line
ReadsPastLines ==
    /\ tpc = "read" /\ rd > Len(resp.lines) /\ tpc' # tpc

C36_Step ==
    (SameCall /\ ReadsPastLines /\ resp.tail # <<>>) =>
        /\ tpc' = "closeErr"
        /\ UNCHANGED <<rd, chunk, emitted, textChan>>
        /\ resp.end = "EOF" => UNCHANGED <<errChan, errPlaced>>

C36_State ==
    (resp.status = 200 /\ ~resp.neterr /\ resp.tail # <<>>) =>
        /\ rd <= Len(resp.lines) + 1
        /\ IsPrefix(emitted, ExpectedChunks(resp.lines, Len(resp.lines)))
        /\ tpc = "send" => rd <= Len(resp.lines) + 1
                           /\ chunk = ChunkOfLine(resp.lines[rd - 1])
        /\ (Closing /\ resp.end = "EOF") =>
              /\ emitted = ExpectedChunks(resp.lines, Len(resp.lines))
              /\ errPlaced = NilErr /\ errChan.buf = <<>>

\* C36: when the body ends with bytes that no newline follows, the read
\* that returns them ends the loop: they are not parsed, nothing of them is
\* sent, even when they are a well-formed `data: ` frame with content, and
\* at io.EOF the call closes with no error.
C36_PartialLineDropped == [](C36_State) /\ [][C36_Step]_vars

\* one terminated frame, then a well-formed frame without its newline: only
\* the first was emitted, both channels are closed, no error
C36_Witness ==
    /\ resp.lines = << <<"data: ", "{b}">> >>
    /\ resp.tail = <<"data: ", "{a}">>
    /\ resp.end = "EOF"
    /\ emitted = << <<"b">> >>
    /\ tpc = "done" /\ textChan = "closed" /\ errChan.closed
    /\ errPlaced = NilErr

----------------------------------------------------------------------------
(* A round without text *)

\* the round ends: the select loop is left for the next pass of the loop
RoundEnds == pc = "select" /\ pc' = "loop"

\* the next round begins
RoundBegins == pc = "loop" /\ pc' = "select"

C37_Step ==
    /\ (RoundEnds /\ emitted = <<>> /\ errPlaced = NilErr) =>
          /\ textChan = "closed"
          /\ messages' = Append(messages, Message("assistant", <<>>))
          /\ currentAgent' = Other(currentAgent)
          /\ round' = round + 1
          /\ currentText' = <<>>
    /\ (RoundBegins /\ messages # <<>>
           /\ messages[Len(messages)] = Message("assistant", <<>>)) =>
          messages' = Append(messages, Message("user", <<>>))

\* C37: a round whose stream is closed with no error and no chunk is a
\* completed round: an assistant message with empty content is appended,
\* the other agent becomes the speaker, the round counter advances, and the
\* user message of the next round has empty content.
C37_EmptyRoundCompletes == [][C37_Step]_vars

\* round 1 brought no text; round 2 began with an empty user message for B
C37_Witness ==
    /\ round = 2 /\ pc = "select" /\ currentAgent = "B"
    /\ Len(messages) = 3
    /\ messages[2] = Message("assistant", <<>>)
    /\ messages[3] = Message("user", <<>>)

----------------------------------------------------------------------------
(* A round limit that allows no round *)

C38_State ==
    maxRounds <= 0 =>
        /\ TotalCalls = 0
        /\ messages = <<>>
        /\ pc # "select" /\ tpc = "idle"
        /\ pc = "loop" => /\ round = 1
                          /\ ENABLED LoopExit
                          /\ ~ENABLED RoundStart
        /\ pc = "finished" => retErr = NilErr

C38_Step ==
    (maxRounds <= 0 /\ pc = "loop") => (pc' = "finished" /\ retErr' = NilErr)

\* C38: with a round limit of zero or less the run, once both health checks
\* have passed, makes no StreamChat call, appends no message, and its one
\* step is the return of no error.
C38_NoRounds == [](C38_State) /\ [][C38_Step]_vars

\* a negative limit: both health checks passed and the run returned nil
C38_Witness ==
    /\ maxRounds < 0
    /\ healthRes["A"] = NilErr /\ healthRes["B"] = NilErr
    /\ pc = "finished" /\ retErr = NilErr
    /\ messages = <<>>

----------------------------------------------------------------------------
(* The nil received from the closed error channel *)

\* the orchestrator receives from the error channel when it is closed and
\* empty
ReceivesNil ==
    /\ pc = "select" /\ errChan.closed /\ errChan.buf = <<>>
    /\ ~nilRecv /\ nilRecv'

C39_Step ==
    /\ (nilRecv' # nilRecv /\ SameCall) => ReceivesNil
    /\ ReceivesNil =>
          UNCHANGED <<pc, retErr, messages, fullResponse, currentText,
                      currentAgent, round, textChan, errChan, tpc>>
    /\ (RoundEnds /\ errPlaced = NilErr) =>
          /\ textChan = "closed" /\ errChan.closed /\ tpc = "done"
          /\ nilRecv' = nilRecv

\* C39: the nil that the orchestrator receives from the closed, empty error
\* channel leaves the run where it was: no abort, no end of the round, the
\* history, the accumulated reply and the speaker as before; a round whose
\* goroutine closed both channels with no error ends only by the receive
\* that finds the text channel closed.
C39_NilChangesNothing == [][C39_Step]_vars

\* a nil was received in round 1, and the round then ended by the closed
\* text channel with its two messages
C39_Witness ==
    /\ nilRecv /\ errPlaced = NilErr
    /\ pc = "loop" /\ round = 2 /\ retErr = NilErr
    /\ Len(messages) = 2 /\ messages[2].Role = "assistant"

====
